---- MODULE Spec2Model ----
(***************************************************************************)
(* Record-and-replay function mocks (src/src/mock-fn-record-and-replay.ts) *)
(* and the structural JSON comparator (src/src/json-equals.ts).            *)
(*                                                                         *)
(* The fixture modelled is the one of the example test (getDivMock of      *)
(* src/src/mock-fn-record-and-replay-example.spec.ts): fn = div,           *)
(* serialize.args/success are the identity on JSON-safe values,            *)
(* serialize.error/deserialize.error are serializeError/deserializeError,  *)
(* deserialize.success is z.number().parse.                                *)
(***************************************************************************)
EXTENDS Integers, Sequences, FiniteSets, TLC

(***************************************************************************)
(* Bounds of the model.                                                    *)
(***************************************************************************)
\* invocations of the mock per fixture instance (= record indices modelled)
MaxCalls == 2

(***************************************************************************)
(* JSON values.  Every value has the same record shape so that values of   *)
(* different JSON kinds can be held in one collection; `kind` says which   *)
(* fields are meaningful.  Objects keep their keys in insertion order      *)
(* (keys[i] maps to items[i]).  "undefined" is the JavaScript value read   *)
(* from a missing property; it is not a JSON value.                        *)
(***************************************************************************)
JVal(kind, s, n, b, keys, items) ==
    [kind |-> kind, s |-> s, n |-> n, b |-> b, keys |-> keys, items |-> items]

JNull == JVal("null", "", 0, FALSE, <<>>, <<>>)

JUndefined == JVal("undefined", "", 0, FALSE, <<>>, <<>>)

JStr(s) == JVal("string", s, 0, FALSE, <<>>, <<>>)

JNum(n) == JVal("number", "", n, FALSE, <<>>, <<>>)

JBool(b) == JVal("boolean", "", 0, b, <<>>, <<>>)

JArr(items) == JVal("array", "", 0, FALSE, <<>>, items)

JObj(keys, items) == JVal("object", "", 0, FALSE, keys, items)

\* `key in obj` for a string key (arrays own no such property)
HasKey(obj, key) ==
    obj.kind = "object" /\ \E i \in 1..Len(obj.keys) : obj.keys[i] = key

\* obj[key]: the value of the property, undefined if there is none
Get(obj, key) ==
    IF HasKey(obj, key)
    THEN obj.items[CHOOSE i \in 1..Len(obj.keys) : obj.keys[i] = key]
    ELSE JUndefined

(***************************************************************************)
(* json-equals.ts                                                          *)
(***************************************************************************)
\* the order Array.prototype.sort gives the property names of the model
KeyOrder ==
    <<"__proto__", "a", "args", "b", "constructor", "data", "error", "length", "message",
      "result", "success">>

KeyRank(k) == CHOOSE i \in 1..Len(KeyOrder) : KeyOrder[i] = k

\* Object.keys(obj).sort()
RECURSIVE InsertSorted(_, _)
InsertSorted(sorted, k) ==
    IF sorted = <<>> THEN <<k>>
    ELSE IF KeyRank(k) <= KeyRank(Head(sorted)) THEN <<k>> \o sorted
    ELSE <<Head(sorted)>> \o InsertSorted(Tail(sorted), k)

RECURSIVE SortKeys(_)
SortKeys(keys) ==
    IF keys = <<>> THEN <<>>
    ELSE InsertSorted(SortKeys(Tail(keys)), Head(keys))

\* (mutant) JavaScript's typeof: null and arrays are "object"
getTypeof(value) ==
    IF value.kind \in {"null", "array", "object"} THEN "object"
    ELSE IF value.kind \in {"string", "number", "boolean"} THEN value.kind
    ELSE "throw"

getType(value) ==
    IF value.kind = "null" THEN "null"
    ELSE IF value.kind = "array" THEN "array"
    ELSE IF value.kind \in {"string", "number", "boolean", "object"} THEN value.kind
    ELSE "throw"

\* a === b: by value for primitives; two arrays or objects compared here are
\* never the same reference (one is parsed from a file, the other serialized)
StrictEquals(a, b) ==
    /\ a.kind = b.kind
    /\ \/ a.kind \in {"null", "undefined"}
       \/ a.kind = "string" /\ a.s = b.s
       \/ a.kind = "number" /\ a.n = b.n
       \/ a.kind = "boolean" /\ a.b = b.b

RECURSIVE jsonEquals(_, _)
jsonEquals(a, b) ==
    IF StrictEquals(a, b) THEN TRUE
    ELSE IF getType(a) # getType(b) THEN FALSE
    ELSE IF getType(a) \in {"null", "string", "number", "boolean"} THEN StrictEquals(a, b)
    ELSE IF getType(a) = "array"
         THEN IF Len(a.items) # Len(b.items) THEN FALSE
              ELSE \A idx \in 1..Len(a.items) : jsonEquals(a.items[idx], b.items[idx])
    ELSE LET keysA == SortKeys(a.keys)
             keysB == SortKeys(b.keys)
         IN  IF Len(keysA) # Len(keysB) THEN FALSE
             ELSE \A idx \in 1..Len(keysA) :
                     /\ keysA[idx] = keysB[idx]
                     /\ jsonEquals(Get(a, keysA[idx]), Get(b, keysA[idx]))

(***************************************************************************)
(* The other jsonEquals of the repository (src/unnamed/part_000): objects  *)
(* are compared with `key in objB` and objB[key], which also find what an  *)
(* object inherits from Object.prototype.  A comparison returns "true" or  *)
(* "false", or ends in "throw" (getType on a value that is no JsonValue);  *)
(* every() stops at the first element that is not true.                    *)
(***************************************************************************)
\* Object.prototype.constructor: the function Object
JFunction == JVal("function", "", 0, FALSE, <<>>, <<>>)

\* Object.prototype itself, read through the inherited accessor __proto__:
\* an object without enumerable own properties
ObjectPrototype == JObj(<<>>, <<>>)

\* the members of Object.prototype among the property names of the model
ObjectPrototypeKeys == {"constructor", "__proto__"}

\* key in objB
In(key, objB) == HasKey(objB, key) \/ key \in ObjectPrototypeKeys

\* objB[key], own property first
GetInherited(objB, key) ==
    IF HasKey(objB, key) THEN Get(objB, key)
    ELSE IF key = "constructor" THEN JFunction
    ELSE IF key = "__proto__" THEN ObjectPrototype
    ELSE JUndefined

RECURSIVE jsonEquals_part000(_, _)
RECURSIVE everyItem(_, _, _)
RECURSIVE everyEntry(_, _, _)

\* arrayA.every((itemA, idx) => jsonEquals(itemA, arrayB[idx])), from idx on
everyItem(arrayA, arrayB, idx) ==
    IF idx > Len(arrayA.items) THEN "true"
    ELSE LET r == jsonEquals_part000(arrayA.items[idx], arrayB.items[idx])
         IN  IF r = "true" THEN everyItem(arrayA, arrayB, idx + 1) ELSE r

arrayEquals(arrayA, arrayB) ==
    IF Len(arrayA.items) # Len(arrayB.items) THEN "false"
    ELSE everyItem(arrayA, arrayB, 1)

\* Object.entries(objA).every(([key, valueA]) => key in objB &&
\* jsonEquals(valueA, objB[key])), from the idx-th entry on
everyEntry(objA, objB, idx) ==
    IF idx > Len(objA.keys) THEN "true"
    ELSE LET key == objA.keys[idx]
             r == IF In(key, objB)
                  THEN jsonEquals_part000(objA.items[idx], GetInherited(objB, key))
                  ELSE "false"
         IN  IF r = "true" THEN everyEntry(objA, objB, idx + 1) ELSE r

objectEquals(objA, objB) ==
    IF Len(objA.keys) # Len(objB.keys) THEN "false"
    ELSE everyEntry(objA, objB, 1)

jsonEquals_part000(a, b) ==
    IF StrictEquals(a, b) THEN "true"
    ELSE IF getType(a) = "throw" \/ getType(b) = "throw" THEN "throw"
    ELSE IF getType(a) # getType(b) THEN "false"
    ELSE IF getType(a) \in {"null", "string", "number", "boolean"}
         THEN (IF StrictEquals(a, b) THEN "true" ELSE "false")
    ELSE IF getType(a) = "array" THEN arrayEquals(a, b)
    ELSE objectEquals(a, b)

(***************************************************************************)
(* JavaScript errors and promise outcomes.                                 *)
(***************************************************************************)
\* an error object: its constructor's name and its message
Err(ctor, msg) == [ctor |-> ctor, msg |-> msg]

NoErr == Err("", "")

\* the result of a function that returns or throws
Returned(json) == [ok |-> TRUE, json |-> json, err |-> NoErr]

Threw(err) == [ok |-> FALSE, json |-> JUndefined, err |-> err]

\* the state of the promise an invocation returned
Pending == [st |-> "pending", num |-> 0, err |-> NoErr]

Resolved(num) == [st |-> "resolved", num |-> num, err |-> NoErr]

Rejected(err) == [st |-> "rejected", num |-> 0, err |-> err]

GuardMsg == "Snapshot update already performed in this test. Rerun the test to continue."

CannotSerializeMsg(ctor) ==
    "Cannot serialize non-Error object (constructor: " \o ctor \o ") "
        \o "Extend serialize.error/deserialize.error to support that error type."

(***************************************************************************)
(* The fixture of the example test.                                        *)
(***************************************************************************)
\* async function div(numerator, denominator); the inputs of the model
\* divide exactly
div(args) ==
    IF args[2] = 0 THEN Rejected(Err("Error", "Division by zero"))
    ELSE Resolved(args[1] \div args[2])

\* serialize.args: args => args
serializeArgs(args) == JArr(<<JNum(args[1]), JNum(args[2])>>)

\* serialize.success: value => value
serializeSuccess(value) == JNum(value)

\* deserialize.success: obj => z.number().parse(obj)
deserializeSuccess(obj) ==
    IF obj.kind = "number" THEN Returned(obj)
    ELSE Threw(Err("ZodError", "Expected number"))

\* (mutant) an error that is no plain Error is recorded as its text
serializeErrorCoerces(err) ==
    Returned(JObj(<<"message">>,
                  <<JStr(IF err.ctor = "Error" THEN err.msg ELSE err.ctor \o ": " \o err.msg)>>))

\* (mutant) every instance of Error is accepted, subclasses included
serializeErrorAnyError(err) ==
    IF err.ctor \in {"Error", "TypeError", "AssertionError", "ZodError"}
    THEN Returned(JObj(<<"message">>, <<JStr(err.msg)>>))
    ELSE Threw(Err("Error", CannotSerializeMsg(IF err.ctor = "" THEN "unknown" ELSE err.ctor)))

serializeError(err) ==
    IF err.ctor = "Error"
    THEN Returned(JObj(<<"message">>, <<JStr(err.msg)>>))
    ELSE Threw(Err("Error", CannotSerializeMsg(IF err.ctor = "" THEN "unknown" ELSE err.ctor)))

\* (mutant) the message of the recorded error is dropped
deserializeErrorNoMessage(obj) ==
    [ok |-> TRUE, json |-> JUndefined, err |-> Err("Error", "")]

\* (mutant) the type of the message is not checked
deserializeErrorUnchecked(obj) ==
    IF obj.kind \in {"object", "array"} /\ HasKey(obj, "message")
    THEN [ok |-> TRUE, json |-> JUndefined, err |-> Err("Error", Get(obj, "message").s)]
    ELSE Threw(Err("Error", "Cannot deserialize error from invalid object"))

deserializeError(obj) ==
    IF /\ obj.kind \in {"object", "array"}
       /\ HasKey(obj, "message")
       /\ Get(obj, "message").kind = "string"
    THEN [ok |-> TRUE, json |-> JUndefined, err |-> Err("Error", Get(obj, "message").s)]
    ELSE Threw(Err("Error", "Cannot deserialize error from invalid object"))

(***************************************************************************)
(* Snapshot files.  The text of a file is modelled by what decides text    *)
(* equality of pretty-printed JSON: the indentation, the trailing newline  *)
(* and the document with its keys in written order; a text that is not     *)
(* JSON has parses = FALSE.                                                *)
(***************************************************************************)
Indent == 4

Text(indent, nl, doc) ==
    [exists |-> TRUE, parses |-> TRUE, indent |-> indent, nl |-> nl, doc |-> doc]

NoFile == [exists |-> FALSE, parses |-> FALSE, indent |-> 0, nl |-> FALSE, doc |-> JNull]

GarbageFile == [exists |-> TRUE, parses |-> FALSE, indent |-> 0, nl |-> FALSE, doc |-> JNull]

\* type SerializedCall = { args, result }
SerializedCall(args, result) == JObj(<<"args", "result">>, <<args, result>>)

\* type Result: { success: true, data } | { success: false, error }
Success(data) == JObj(<<"success", "data">>, <<JBool(TRUE), data>>)

\* (mutant) the outcome of a failed call is tagged as a success
FailureTaggedSuccess(error) == JObj(<<"success", "error">>, <<JBool(TRUE), error>>)

Failure(error) == JObj(<<"success", "error">>, <<JBool(FALSE), error>>)

safeJsonParse(text) == IF text.parses THEN text.doc ELSE JNull

isSerializedCall(obj) ==
    /\ obj.kind \in {"object", "array"}
    /\ HasKey(obj, "args")
    /\ HasKey(obj, "result")
    /\ Get(obj, "result").kind \in {"object", "array"}
    /\ HasKey(Get(obj, "result"), "success")

\* padZeros(index + 1, 3) names the file; the store is keyed by index + 1
getSnapshotFile(files, index) ==
    LET path == index + 1
        json == safeJsonParse(files[path])
    IN  IF files[path].exists
        THEN [path |-> path, call |-> IF isSerializedCall(json) THEN json ELSE JNull]
        ELSE [path |-> path, call |-> JNull]

\* (mutant) an unrecognized value is taken for "new"
getSnapshotsModeDefaultsToCreate(mode) ==
    CASE mode = "none" -> [ok |-> TRUE, mode |-> "NONE", err |-> NoErr]
      [] mode = "all"  -> [ok |-> TRUE, mode |-> "CREATE_AND_UPDATE", err |-> NoErr]
      [] OTHER -> [ok |-> TRUE, mode |-> "CREATE", err |-> NoErr]

getSnapshotsMode(mode) ==
    CASE mode = "none" -> [ok |-> TRUE, mode |-> "NONE", err |-> NoErr]
      [] mode = "new"  -> [ok |-> TRUE, mode |-> "CREATE", err |-> NoErr]
      [] mode = "all"  -> [ok |-> TRUE, mode |-> "CREATE_AND_UPDATE", err |-> NoErr]
      [] OTHER -> [ok |-> FALSE, mode |-> "",
                   err |-> Err("Error", "Unsupported snapshot update mode: " \o mode)]

\* (mutant) the record is written without its arguments
serializedCallStrNoArgs(args, result) ==
    Text(Indent, TRUE, SerializedCall(JArr(<<>>), result))

\* JSON.stringify(call, null, 4) + "\n" of { args: argsSerialized, result }
serializedCallStr(args, result) ==
    Text(Indent, TRUE, SerializedCall(serializeArgs(args), result))

\* expect(received).toMatchFileSnapshot(path) under the runner's update mode:
\* "none" creates and updates nothing, "new" creates absent files only, "all"
\* creates and overwrites; without a write the assertion passes iff the text
\* is the file's
toMatchFileSnapshot(received, file, mode) ==
    LET pass == file.exists /\ file = received
        write == \/ file.exists /\ mode = "all"
                 \/ ~file.exists /\ mode \in {"new", "all"}
    IN  [pass |-> pass \/ write,
         content |-> IF write /\ ~pass THEN received ELSE file]

\* getSnapshotFiles: the files of the fixture, in directory (name) order
RECURSIVE getSnapshotFilesFrom(_, _)
getSnapshotFilesFrom(files, path) ==
    IF path \notin DOMAIN files THEN <<>>
    ELSE (IF files[path].exists THEN <<path>> ELSE <<>>)
             \o getSnapshotFilesFrom(files, path + 1)

getSnapshotFiles(files) == getSnapshotFilesFrom(files, 1)

\* (mutant) the slice starts one file late
SliceAfterNext(seq, from) == SubSeq(seq, from + 2, Len(seq))

\* snapshotFiles.slice(callsCount)
Slice(seq, from) == SubSeq(seq, from + 1, Len(seq))

isMockFulfilled(files, callsCount) ==
    LET snapshotFiles == getSnapshotFiles(files)
        missingCalls == Slice(snapshotFiles, callsCount)
    IN  [success |-> Len(missingCalls) = 0, missing |-> missingCalls,
         made |-> callsCount, total |-> Len(snapshotFiles)]

(***************************************************************************)
(* State.                                                                  *)
(***************************************************************************)
VARIABLES
    files,                      \* the snapshots folder: path (index + 1) -> file
    updateSnapshot,             \* the runner's snapshotState._updateSnapshot
    allowOnlyOneUpdatePerTest,  \* option of the fixture instance
    index,                      \* MockState.index
    updatedCount,               \* MockState.updatedCount
    calls,                      \* the invocations of the instance, in call order
    files0,                     \* the snapshots folder when the run began
    prev,                       \* the run before this one, if it recorded
    applied,                    \* the exported helper a unit test applies, with its inputs
    ret,                        \* what that helper returned or threw
    other                       \* the other fixture instance of the test, if it built two

vars == <<files, updateSnapshot, allowOnlyOneUpdatePerTest, index, updatedCount,
          calls, files0, prev, applied, ret, other>>

\* argument tuples the tests pass to the mock: div(6, 2) and div(4, 0) of the
\* example test, div(10, 1) of the runner test's mismatching records
ArgTuples == {<<6, 2>>, <<10, 1>>, <<4, 0>>}

\* what a snapshot file may hold before a run: nothing, text that is not
\* JSON, records as the mock writes them, and records as the test helpers
\* write them (JSON.stringify(call, null, 2), no trailing newline)
InitFiles ==
    { NoFile,
      GarbageFile,
      Text(Indent, TRUE, SerializedCall(serializeArgs(<<6, 2>>), Success(JNum(3)))),
      Text(2, FALSE, SerializedCall(serializeArgs(<<10, 5>>), Success(JNum(2)))),
      Text(Indent, TRUE, SerializedCall(serializeArgs(<<4, 0>>),
                                        Failure(JObj(<<"message">>, <<JStr("Division by zero")>>)))) }

\* values of _updateSnapshot: the runner's three, and one it does not have
UpdateModes == {"none", "new", "all", "unknown"}

Modes == {"NONE", "CREATE", "CREATE_AND_UPDATE"}

\* prev: whether there was a run before this one, whether it recorded (it
\* began over an empty folder in mode "new" or "all") and, if it did, the
\* arguments and outcome of each of its invocations
NoPrev == [exists |-> FALSE, recorded |-> FALSE, calls |-> <<>>]

\* applied, ret: no helper is applied by a test that drives the mock
NoHelper == [fn |-> ""]

NoRet == [done |-> FALSE]

\* other: a test that builds one fixture instance has no other
NoInstance == [exists |-> FALSE, id |-> 0, index |-> 0, updatedCount |-> 0, calls |-> <<>>]

(***************************************************************************)
(* MockState                                                               *)
(***************************************************************************)
\* (mutant) the counters are the module's, shared by the instances
MockStateShared == [updatedCount |-> updatedCount, index |-> index]

\* new MockState()
MockState == [updatedCount |-> 0, index |-> 0]

\* (mutant) the index is not advanced
incrementIndexForgotten(i) == i

incrementIndex(i) == i + 1

\* (mutant) the counter of updates is never advanced
incrementUpdatesForgotten(count) == count

incrementUpdates(count) == count + 1

(***************************************************************************)
(* RecordAndReplayFn                                                       *)
(***************************************************************************)
\* (mutant) the mode is the one the first invocation of the instance read
RecordAndReplayFnModeMemoized(args, currentIndex, folder, mode) ==
    [args |-> args, index |-> currentIndex,
     mode |-> IF calls = <<>> THEN mode ELSE calls[1].mode,
     read |-> folder[currentIndex + 1],
     call |-> getSnapshotFile(folder, currentIndex).call]

\* (mutant) the invocation takes its index from how many invocations have
\* settled, as if the counter were advanced after the awaits
RecordAndReplayFnIndexAtSettle(args, currentIndex, folder, mode) ==
    LET settled == Cardinality({k \in 1..Len(calls) : calls[k].pc = "done"})
    IN  [args |-> args, index |-> settled, mode |-> mode,
         read |-> folder[settled + 1],
         call |-> getSnapshotFile(folder, settled).call]

\* the constructor: what one invocation reads when it starts
\*   index: the call index it took;  read: the file at its path;
\*   call:  snapshotFile.call;       mode: getSnapshotsMode()
RecordAndReplayFn(args, currentIndex, folder, mode) ==
    [args |-> args, index |-> currentIndex, mode |-> mode,
     read |-> folder[currentIndex + 1],
     call |-> getSnapshotFile(folder, currentIndex).call]

\* the state of one invocation of mockFn
\*   branch:  the method the switch dispatched to
\*   count:   state.updatedCount when the invocation started
\*   pc:      "awaitFn" (awaiting the real function), "awaitMatch"
\*            (awaiting toMatchFileSnapshot), "done" (promise settled)
\*   at:      which expectResultToMatchSnapshot is awaited
\*   fnCalls: invocations of the real function made
\*   caught:  what serialize.success threw, caught by the catch block
\*   matches: the texts proposed to the runner, with the runner's mode and
\*            answer
Invocation(mock, branch, pc, at, fnCalls, received, out) ==
    [args |-> mock.args, index |-> mock.index, mode |-> mock.mode, read |-> mock.read,
     call |-> mock.call, branch |-> branch, count |-> updatedCount,
     pc |-> pc, at |-> at, fnCalls |-> fnCalls,
     fnOut |-> Pending, caught |-> NoErr, received |-> received, matches |-> <<>>,
     out |-> out]

snapshotExists(call) == call.kind # "null"

\* expectedSerializedCall is read only where the snapshot exists
argsMatch(args, call) == jsonEquals(serializeArgs(args), Get(call, "args"))

\* (mutant) the mode is not consulted
inModeNotConsulted(mode, modesToCheck) == TRUE

inMode(mode, modesToCheck) == mode \in modesToCheck

\* (mutant) an existing snapshot is re-recorded in CREATE_AND_UPDATE without
\* looking at the arguments
SwitchUpdateBeforeReplay(args, call, mode) ==
    CASE ~snapshotExists(call) /\ inMode(mode, {"CREATE", "CREATE_AND_UPDATE"}) ->
            "callFunctionAndCreateSnapshot"
      [] ~snapshotExists(call) /\ inMode(mode, {"NONE"}) ->
            "failNoSnapshot"
      [] snapshotExists(call) /\ inMode(mode, {"CREATE_AND_UPDATE"}) ->
            "callFunctionAndUpdateSnapshot"
      [] snapshotExists(call) /\ argsMatch(args, call) ->
            "deserializeResultFromSnapshot"
      [] OTHER -> "failArgsMismatch"

\* (mutant) the case of a mismatch in NONE or CREATE is missing
SwitchWithoutArgsMismatch(args, call, mode) ==
    CASE ~snapshotExists(call) /\ inMode(mode, {"CREATE", "CREATE_AND_UPDATE"}) ->
            "callFunctionAndCreateSnapshot"
      [] ~snapshotExists(call) /\ inMode(mode, {"NONE"}) ->
            "failNoSnapshot"
      [] snapshotExists(call) /\ argsMatch(args, call) ->
            "deserializeResultFromSnapshot"
      [] snapshotExists(call) /\ ~argsMatch(args, call) /\ inMode(mode, {"CREATE_AND_UPDATE"}) ->
            "callFunctionAndUpdateSnapshot"
      [] OTHER -> "default"

\* (mutant) a missing snapshot is recorded whatever the mode
SwitchCreateInAnyMode(args, call, mode) ==
    CASE ~snapshotExists(call) -> "callFunctionAndCreateSnapshot"
      [] snapshotExists(call) /\ argsMatch(args, call) -> "deserializeResultFromSnapshot"
      [] snapshotExists(call) /\ inMode(mode, {"CREATE_AND_UPDATE"}) ->
            "callFunctionAndUpdateSnapshot"
      [] OTHER -> "failArgsMismatch"

\* (mutant) a mismatched snapshot is re-recorded in CREATE as well
SwitchUpdateInCreate(args, call, mode) ==
    CASE ~snapshotExists(call) /\ inMode(mode, {"CREATE", "CREATE_AND_UPDATE"}) ->
            "callFunctionAndCreateSnapshot"
      [] ~snapshotExists(call) /\ inMode(mode, {"NONE"}) ->
            "failNoSnapshot"
      [] snapshotExists(call) /\ argsMatch(args, call) ->
            "deserializeResultFromSnapshot"
      [] snapshotExists(call) /\ inMode(mode, {"CREATE", "CREATE_AND_UPDATE"}) ->
            "callFunctionAndUpdateSnapshot"
      [] OTHER -> "failArgsMismatch"

\* the switch (true) of mockFn: the first case that holds
Switch(args, call, mode) ==
    CASE ~snapshotExists(call) /\ inMode(mode, {"CREATE", "CREATE_AND_UPDATE"}) ->
            "callFunctionAndCreateSnapshot"
      [] ~snapshotExists(call) /\ inMode(mode, {"NONE"}) ->
            "failNoSnapshot"
      [] snapshotExists(call) /\ argsMatch(args, call)
            /\ inMode(mode, {"NONE", "CREATE", "CREATE_AND_UPDATE"}) ->
            "deserializeResultFromSnapshot"
      [] snapshotExists(call) /\ ~argsMatch(args, call) /\ inMode(mode, {"CREATE_AND_UPDATE"}) ->
            "callFunctionAndUpdateSnapshot"
      [] snapshotExists(call) /\ ~argsMatch(args, call) /\ inMode(mode, {"NONE", "CREATE"}) ->
            "failArgsMismatch"
      [] OTHER -> "default"

\* deserializeResultFromSnapshot: the promise it returns
deserializeResultFromSnapshot(call) ==
    LET result == Get(call, "result")
    IN  IF result.kind = "object" /\ Get(result, "success") = JBool(TRUE)
        THEN LET d == deserializeSuccess(Get(result, "data"))
             IN  IF d.ok THEN Resolved(d.json.n) ELSE Rejected(d.err)
        ELSE Rejected(deserializeError(Get(result, "error")).err)

\* (mutants) the guard refuses the first update too; never refuses; refuses
\* without the option
UpdateRefusedAtOnce(only, count) == only

UpdateRefusedNever(only, count) == FALSE

UpdateRefusedWithoutOption(only, count) == count > 0

\* the guard of callFunctionAndSaveSnapshot
UpdateRefused(only, count) == only /\ count > 0

\* callFunctionAndSaveSnapshot up to its first await: the guard, the counter
\* and the call of the real function
callFunctionAndSaveSnapshot(mock, branch, only) ==
    IF UpdateRefused(only, updatedCount)
    THEN /\ calls' = Append(calls,
                Invocation(mock, branch, "done", "", 0, NoFile, Rejected(Err("Error", GuardMsg))))
         /\ UNCHANGED updatedCount
    ELSE /\ updatedCount' = incrementUpdates(updatedCount)
         /\ calls' = Append(calls, Invocation(mock, branch, "awaitFn", "", 1, NoFile, Pending))

callFunctionAndCreateSnapshot(mock) ==
    callFunctionAndSaveSnapshot(mock, "callFunctionAndCreateSnapshot", FALSE)

callFunctionAndUpdateSnapshot(mock) ==
    callFunctionAndSaveSnapshot(mock, "callFunctionAndUpdateSnapshot",
                                allowOnlyOneUpdatePerTest)

\* failNoSnapshot and failArgsMismatch up to their await
failNoSnapshot(mock) ==
    /\ calls' = Append(calls,
            Invocation(mock, "failNoSnapshot", "awaitMatch", "fail", 0,
                       serializedCallStr(mock.args, Success(JNull)), Pending))
    /\ UNCHANGED updatedCount

failArgsMismatch(mock) ==
    /\ calls' = Append(calls,
            Invocation(mock, "failArgsMismatch", "awaitMatch", "fail", 0,
                       serializedCallStr(mock.args, Get(mock.call, "result")), Pending))
    /\ UNCHANGED updatedCount

\* mockFn(...args), up to the first await of the method it dispatches to
mockFn(args) ==
    /\ Len(calls) < MaxCalls
    /\ LET m == getSnapshotsMode(updateSnapshot)
           mock == RecordAndReplayFn(args, index, files, m.mode)
           branch == Switch(args, mock.call, mock.mode)
       IN  /\ index' = incrementIndex(index)
           /\ IF ~m.ok
              THEN /\ calls' = Append(calls,
                        Invocation(mock, "constructor", "done", "", 0, NoFile, Rejected(m.err)))
                   /\ UNCHANGED updatedCount
              ELSE CASE branch = "callFunctionAndCreateSnapshot" ->
                            callFunctionAndCreateSnapshot(mock)
                     [] branch = "failNoSnapshot" ->
                            failNoSnapshot(mock)
                     [] branch = "deserializeResultFromSnapshot" ->
                            /\ calls' = Append(calls,
                                    Invocation(mock, branch, "done", "", 0, NoFile,
                                               deserializeResultFromSnapshot(mock.call)))
                            /\ UNCHANGED updatedCount
                     [] branch = "callFunctionAndUpdateSnapshot" ->
                            callFunctionAndUpdateSnapshot(mock)
                     [] branch = "failArgsMismatch" ->
                            failArgsMismatch(mock)
                     [] OTHER ->
                            /\ calls' = Append(calls,
                                    Invocation(mock, "default", "done", "", 0, NoFile,
                                               Rejected(Err("Error", "Unhandled mock state"))))
                            /\ UNCHANGED updatedCount
    /\ UNCHANGED <<files, updateSnapshot, allowOnlyOneUpdatePerTest, files0, prev,
                   applied, ret, other>>

\* options.fn: div in the fixture of the example test; in the fixture of a
\* test of the error codec, a function that rejects with the value the test
\* chose
options_fn(args) ==
    IF applied.fn = "recordAndReplayFnMock" THEN Rejected(applied.err) ELSE div(args)

\* options.serialize.success: value => value in the fixture of the example
\* test; in the fixture of a test of the catch block, a serializer that
\* throws the value the test chose
options_serialize_success(value) ==
    IF applied.fn = "serialize.success" THEN Threw(applied.err)
    ELSE Returned(serializeSuccess(value))

\* the real function settles: the try block goes on to serialize the value
\* and propose the record, the catch block the error
FnSettles(k) ==
    /\ calls[k].pc = "awaitFn"
    /\ LET c == calls[k]
           r == options_fn(c.args)
           data == options_serialize_success(r.num)
           err == IF r.st = "resolved" THEN data.err ELSE r.err
           e == serializeError(err)
       IN  calls' = [calls EXCEPT ![k] =
               IF r.st = "resolved" /\ data.ok
               THEN [c EXCEPT !.fnOut = r, !.pc = "awaitMatch", !.at = "try",
                              !.received = serializedCallStr(c.args, Success(data.json))]
               ELSE IF r.st = "resolved" /\ e.ok
               THEN [c EXCEPT !.fnOut = r, !.caught = err, !.pc = "awaitMatch", !.at = "catch",
                              !.received = serializedCallStr(c.args, Failure(e.json))]
               ELSE IF e.ok
               THEN [c EXCEPT !.fnOut = r, !.pc = "awaitMatch", !.at = "catch",
                              !.received = serializedCallStr(c.args, Failure(e.json))]
               ELSE [c EXCEPT !.fnOut = r, !.pc = "done", !.out = Rejected(e.err)]]
    /\ UNCHANGED <<files, updateSnapshot, allowOnlyOneUpdatePerTest, index, updatedCount,
                   files0, prev, applied, ret, other>>

\* (mutant) a failed assertion on the success record is swallowed
AfterMatchSwallows(c, pass) ==
    CASE c.at = "try" -> [pc |-> "done", at |-> "", received |-> NoFile,
                          out |-> Resolved(c.fnOut.num)]
      [] c.at = "catch" /\ pass -> [pc |-> "done", at |-> "", received |-> NoFile,
                                    out |-> Rejected(c.fnOut.err)]
      [] c.at = "fail" /\ pass -> [pc |-> "done", at |-> "", received |-> NoFile,
                                   out |-> Rejected(Err("Error", "Unreachable"))]
      [] OTHER -> [pc |-> "done", at |-> "", received |-> NoFile,
                   out |-> Rejected(Err("AssertionError", "Snapshot mismatched"))]

\* what follows the awaited expectResultToMatchSnapshot, by where it was
\* awaited and whether the assertion passed
AfterMatch(c, pass) ==
    LET assertion == Err("AssertionError", "Snapshot mismatched")
        e == serializeError(assertion)
    IN  CASE c.at = "try" /\ pass -> [pc |-> "done", at |-> "", received |-> NoFile,
                                     out |-> Resolved(c.fnOut.num)]
          [] c.at = "try" /\ ~pass ->
                IF e.ok
                THEN [pc |-> "awaitMatch", at |-> "catch",
                      received |-> serializedCallStr(c.args, Failure(e.json)), out |-> Pending]
                ELSE [pc |-> "done", at |-> "", received |-> NoFile, out |-> Rejected(e.err)]
          [] c.at = "catch" /\ pass -> [pc |-> "done", at |-> "", received |-> NoFile,
                                       out |-> Rejected(IF c.fnOut.st = "rejected"
                                                        THEN c.fnOut.err
                                                        ELSE IF c.caught # NoErr
                                                        THEN c.caught ELSE assertion)]
          [] c.at = "fail" /\ pass -> [pc |-> "done", at |-> "", received |-> NoFile,
                                      out |-> Rejected(Err("Error", "Unreachable"))]
          [] OTHER -> [pc |-> "done", at |-> "", received |-> NoFile, out |-> Rejected(assertion)]

\* (mutant) the record is written to its file whatever the runner's mode
expectResultToMatchSnapshotWritesFile(received, file, mode) ==
    [pass |-> TRUE, content |-> received]

\* expectResultToMatchSnapshot: the text is only ever handed to the runner's
\* assertion, await expect(str).toMatchFileSnapshot(this.snapshotFile.path)
expectResultToMatchSnapshot(received, file, mode) ==
    toMatchFileSnapshot(received, file, mode)

\* the runner answers the toMatchFileSnapshot an invocation awaits
MatchSettles(k) ==
    /\ calls[k].pc = "awaitMatch"
    /\ LET c == calls[k]
           path == c.index + 1
           m == expectResultToMatchSnapshot(c.received, files[path], updateSnapshot)
           a == AfterMatch(c, m.pass)
       IN  /\ files' = [files EXCEPT ![path] = m.content]
           /\ calls' = [calls EXCEPT ![k] =
                  [c EXCEPT !.pc = a.pc, !.at = a.at, !.received = a.received, !.out = a.out,
                            !.matches = Append(@, [mode |-> updateSnapshot,
                                                   received |-> c.received,
                                                   pass |-> m.pass])]]
    /\ UNCHANGED <<updateSnapshot, allowOnlyOneUpdatePerTest, index, updatedCount,
                   files0, prev, applied, ret, other>>

\* the runner's update mode is set to "none" while the test runs, as
\* preventFurtherSnapshotUpdates of the earlier variant and the example
\* test's override do
preventFurtherSnapshotUpdates ==
    /\ updateSnapshot # "none"
    /\ updateSnapshot' = "none"
    /\ UNCHANGED <<files, allowOnlyOneUpdatePerTest, index, updatedCount, calls,
                   files0, prev, applied, ret, other>>

\* mockFn.isFulfilled()
isFulfilled == isMockFulfilled(files, index)

\* the test run ends with every promise settled; a later run of the same
\* test builds a new fixture (recordAndReplayFnMock) over the same folder,
\* under the update mode the runner is then started with
recordAndReplayFnMock ==
    /\ ~prev.exists
    /\ \A k \in 1..Len(calls) : calls[k].pc = "done"
    /\ LET recorded == /\ \A path \in DOMAIN files0 : ~files0[path].exists
                       /\ updateSnapshot \in {"new", "all"}
       IN  prev' = [exists |-> TRUE, recorded |-> recorded,
                    calls |-> IF recorded
                              THEN [k \in 1..Len(calls) |->
                                        [args |-> calls[k].args, out |-> calls[k].out]]
                              ELSE <<>>]
    /\ files0' = files
    /\ index' = 0
    /\ updatedCount' = 0
    /\ calls' = <<>>
    /\ updateSnapshot' \in UpdateModes
    /\ UNCHANGED <<files, allowOnlyOneUpdatePerTest, applied, ret, other>>

(***************************************************************************)
(* One run of a test over any snapshots folder.                            *)
(***************************************************************************)
Init ==
    /\ files \in [1..MaxCalls -> InitFiles]
    /\ updateSnapshot \in UpdateModes
    /\ allowOnlyOneUpdatePerTest \in BOOLEAN
    /\ index = 0
    /\ updatedCount = 0
    /\ calls = <<>>
    /\ files0 = files
    /\ prev = NoPrev
    /\ applied = NoHelper
    /\ ret = NoRet
    /\ other = NoInstance

Next ==
    \/ \E args \in ArgTuples : mockFn(args)
    \/ \E k \in 1..Len(calls) : FnSettles(k)
    \/ \E k \in 1..Len(calls) : MatchSettles(k)
    \/ preventFurtherSnapshotUpdates

Spec == Init /\ [][Next]_vars

(***************************************************************************)
(* A first run of a test over an empty folder and a later run of it; the   *)
(* update mode stays what the runner was started with during a run.        *)
(***************************************************************************)
InitFresh ==
    /\ files = [path \in 1..MaxCalls |-> NoFile]
    /\ updateSnapshot \in UpdateModes
    /\ allowOnlyOneUpdatePerTest \in BOOLEAN
    /\ index = 0
    /\ updatedCount = 0
    /\ calls = <<>>
    /\ files0 = files
    /\ prev = NoPrev
    /\ applied = NoHelper
    /\ ret = NoRet
    /\ other = NoInstance

NextRuns ==
    \/ \E args \in ArgTuples : mockFn(args)
    \/ \E k \in 1..Len(calls) : FnSettles(k)
    \/ \E k \in 1..Len(calls) : MatchSettles(k)
    \/ recordAndReplayFnMock

SpecRuns == InitFresh /\ [][NextRuns]_vars

(***************************************************************************)
(* One run of a test in which what is awaited settles: the real function   *)
(* is an async function whose promise settles, the runner answers every    *)
(* assertion handed to it, and the event loop resumes the invocation.      *)
(***************************************************************************)
\* the folder the run begins over: per index no file or the record of
\* div(6, 2)
InitFilesFair ==
    { NoFile,
      Text(Indent, TRUE, SerializedCall(serializeArgs(<<6, 2>>), Success(JNum(3)))) }

InitFair ==
    /\ files \in [1..MaxCalls -> InitFilesFair]
    /\ updateSnapshot \in UpdateModes
    /\ allowOnlyOneUpdatePerTest \in BOOLEAN
    /\ index = 0
    /\ updatedCount = 0
    /\ calls = <<>>
    /\ files0 = files
    /\ prev = NoPrev
    /\ applied = NoHelper
    /\ ret = NoRet
    /\ other = NoInstance

SpecFair ==
    /\ InitFair
    /\ [][Next]_vars
    /\ WF_vars(\E k \in 1..Len(calls) : FnSettles(k))
    /\ WF_vars(\E k \in 1..Len(calls) : MatchSettles(k))

(***************************************************************************)
(* A first and a later run, over an empty folder, of a test whose fixture  *)
(* wraps a function that rejects: with a plain Error, with an instance of  *)
(* a subclass of Error, with an object that is no Error, with a primitive. *)
(***************************************************************************)
Rejections == { Err(ctor, "foo") : ctor \in {"Error", "TypeError", "Object", ""} }

InitRejects ==
    /\ files = [path \in 1..MaxCalls |-> NoFile]
    /\ updateSnapshot \in UpdateModes
    /\ allowOnlyOneUpdatePerTest \in BOOLEAN
    /\ index = 0
    /\ updatedCount = 0
    /\ calls = <<>>
    /\ files0 = files
    /\ prev = NoPrev
    /\ applied \in { [fn |-> "recordAndReplayFnMock", err |-> err] : err \in Rejections }
    /\ ret = NoRet
    /\ other = NoInstance

SpecRejects == InitRejects /\ [][NextRuns]_vars

(***************************************************************************)
(* A first and a later run, over an empty folder, of a test whose fixture  *)
(* wraps div and has a serialize.success that throws an Error.             *)
(***************************************************************************)
SerializerErrors == { Err("Error", msg) : msg \in {"foo", "Division by zero"} }

InitSerializers ==
    /\ files = [path \in 1..MaxCalls |-> NoFile]
    /\ updateSnapshot \in UpdateModes
    /\ allowOnlyOneUpdatePerTest \in BOOLEAN
    /\ index = 0
    /\ updatedCount = 0
    /\ calls = <<>>
    /\ files0 = files
    /\ prev = NoPrev
    /\ applied \in { [fn |-> "serialize.success", err |-> err] : err \in SerializerErrors }
    /\ ret = NoRet
    /\ other = NoInstance

SpecSerializers == InitSerializers /\ [][NextRuns]_vars

(***************************************************************************)
(* A test that builds two fixture instances with the same name over an     *)
(* empty folder and invokes now one, now the other.  `index`,              *)
(* `updatedCount` and `calls` are those of the instance the test is        *)
(* invoking, `other` holds those of the instance it is not; the test turns *)
(* to its other instance between invocations, every promise settled.       *)
(***************************************************************************)
Settled == \A k \in 1..Len(calls) : calls[k].pc = "done"

\* recordAndReplayFnMock(options) a second time, with the same name
recordAndReplayFnMockSameName ==
    /\ ~other.exists
    /\ Settled
    /\ other' = [exists |-> TRUE, id |-> 1, index |-> index,
                 updatedCount |-> updatedCount, calls |-> calls]
    /\ index' = MockState.index
    /\ updatedCount' = MockState.updatedCount
    /\ calls' = <<>>
    /\ UNCHANGED <<files, updateSnapshot, allowOnlyOneUpdatePerTest, files0, prev,
                   applied, ret>>

\* the test goes on with its other instance
otherInstance ==
    /\ other.exists
    /\ Settled
    /\ other' = [exists |-> TRUE, id |-> 3 - other.id, index |-> index,
                 updatedCount |-> updatedCount, calls |-> calls]
    /\ index' = other.index
    /\ updatedCount' = other.updatedCount
    /\ calls' = other.calls
    /\ UNCHANGED <<files, updateSnapshot, allowOnlyOneUpdatePerTest, files0, prev,
                   applied, ret>>

NextInstances ==
    \/ \E args \in ArgTuples : mockFn(args)
    \/ \E k \in 1..Len(calls) : FnSettles(k)
    \/ \E k \in 1..Len(calls) : MatchSettles(k)
    \/ recordAndReplayFnMockSameName
    \/ otherInstance

SpecInstances == InitFresh /\ [][NextInstances]_vars

(***************************************************************************)
(* Unit tests of the exported helpers: jsonEquals (json-equals.spec.ts),   *)
(* serializeError and deserializeError, and isFulfilled() over any folder  *)
(* and any invocation counter.  A test applies one helper to inputs drawn  *)
(* from the sets below.                                                    *)
(***************************************************************************)
\* longest array of numbers compared
MaxLen == 3

\* record indices of the folders isFulfilled() is applied to
MaxFiles == 3

\* sequences over S of length at most n
SeqsUpTo(S, n) == UNION { [1..m -> S] : m \in 0..n }

\* the primitives the tests compare, with the values of each kind that
\* JavaScript's loose comparisons confuse: null, false, 0, ""
Primitives ==
    { JNull, JBool(FALSE), JBool(TRUE), JNum(0), JNum(1), JNum(2), JStr(""), JStr("foo") }

\* [], [1, 2, 3], [1, 2], [1, 3, 2], ...
NumberArrays == { JArr(items) : items \in SeqsUpTo({JNum(1), JNum(2), JNum(3)}, MaxLen) }

\* property names of the objects compared, in each insertion order
KeySeqs ==
    { <<>>, <<"a">>, <<"b">>, <<"a", "b">>, <<"b", "a">>, <<"length">>,
      <<"constructor">>, <<"__proto__">>, <<"a", "constructor">>, <<"constructor", "a">> }

ObjectsOver(keySeqs, S) ==
    { JObj(keys, items) : <<keys, items>> \in
        UNION { {keys} \X [1..Len(keys) -> S] : keys \in keySeqs } }

\* {}, { a: 1, b: 2 }, { b: 2, a: 1 }, { a: 1 }, { length: 0 }, ...
FlatObjects == ObjectsOver(KeySeqs, {JNum(0), JNum(1), JNum(2)})

\* what the nested structures of the tests are built from
Nestable ==
    { JNull, JNum(1), JArr(<<>>), JArr(<<JNum(1), JNum(2)>>), JArr(<<JNum(2), JNum(1)>>),
      JObj(<<>>, <<>>), JObj(<<"a">>, <<JNum(1)>>),
      JObj(<<"a", "b">>, <<JNum(1), JNum(2)>>), JObj(<<"b", "a">>, <<JNum(2), JNum(1)>>) }

NestedArrays == { JArr(items) : items \in SeqsUpTo(Nestable, 2) }

NestedObjects ==
    ObjectsOver({ <<"a">>, <<"a", "b">>, <<"b", "a">>, <<"__proto__">> }, Nestable)

\* { user: { ..., tags: [...] }, active } of the tests: objects in arrays in
\* objects, the inner keys in both orders
DeepObjects ==
    { JObj(<<"a", "b">>, <<JArr(<<inner, JNum(1)>>), JBool(TRUE)>>) :
        inner \in {JObj(<<"a", "b">>, <<JNum(1), JNum(2)>>),
                   JObj(<<"b", "a">>, <<JNum(2), JNum(1)>>),
                   JObj(<<"a", "b">>, <<JNum(1), JNum(3)>>)} }
    \cup
    { JObj(<<"b", "a">>, <<JBool(TRUE), JArr(<<inner, JNum(1)>>)>>) :
        inner \in {JObj(<<"a", "b">>, <<JNum(1), JNum(2)>>),
                   JObj(<<"b", "a">>, <<JNum(2), JNum(1)>>)} }

JsonValues ==
    Primitives \cup NumberArrays \cup FlatObjects \cup NestedArrays \cup NestedObjects
        \cup DeepObjects

\* values a function may throw or reject with: a plain Error, instances of
\* subclasses of Error, an object that is no Error, and a primitive or an
\* object without constructor (ctor = "")
Messages == {"", "Division by zero", "foo"}

ThrownValues ==
    { Err(ctor, msg) : ctor \in {"Error", "TypeError", "AssertionError", "Object", ""},
                       msg \in Messages }

\* JSON values handed to deserializeError: those above and objects with a
\* message of each kind
StoredErrors ==
    JsonValues
        \cup { JObj(<<"message">>, <<v>>) : v \in Primitives \cup {JArr(<<>>), JObj(<<>>, <<>>)} }
        \cup { JObj(<<"a", "message">>, <<JNum(1), JStr(msg)>>) : msg \in Messages }

\* a folder of the fixture's snapshot files
RecordFile == Text(Indent, TRUE, SerializedCall(serializeArgs(<<6, 2>>), Success(JNum(3))))

Folders == [1..MaxFiles -> {NoFile, RecordFile}]

\* the helper applied and its inputs
Helpers ==
    { [fn |-> "jsonEquals", a |-> a, b |-> b] : a \in JsonValues, b \in JsonValues }
        \cup { [fn |-> "serializeError", err |-> err] : err \in ThrownValues }
        \cup { [fn |-> "deserializeError", obj |-> obj] : obj \in StoredErrors }
        \cup { [fn |-> "isFulfilled"] }

InitHelpers ==
    /\ applied \in Helpers
    /\ ret = NoRet
    /\ other = NoInstance
    /\ IF applied.fn = "isFulfilled"
       THEN files \in Folders /\ index \in 0..(MaxFiles + 1)
       ELSE files = [path \in 1..MaxFiles |-> NoFile] /\ index = 0
    /\ files0 = files
    /\ updateSnapshot = "none"
    /\ allowOnlyOneUpdatePerTest = FALSE
    /\ updatedCount = 0
    /\ calls = <<>>
    /\ prev = NoPrev

Returns(value) ==
    /\ ~ret.done
    /\ ret' = value
    /\ UNCHANGED <<files, updateSnapshot, allowOnlyOneUpdatePerTest, index, updatedCount,
                   calls, files0, prev, applied, other>>

\* expect(jsonEquals(a, b)): both comparators of the repository, applied to
\* a and b, to b and a, and to a and a structural copy of a
jsonEqualsApplied ==
    /\ applied.fn = "jsonEquals"
    /\ Returns([done |-> TRUE,
                ab |-> jsonEquals(applied.a, applied.b),
                ba |-> jsonEquals(applied.b, applied.a),
                aa |-> jsonEquals(applied.a, applied.a),
                part000 |-> [ab |-> jsonEquals_part000(applied.a, applied.b),
                             ba |-> jsonEquals_part000(applied.b, applied.a),
                             aa |-> jsonEquals_part000(applied.a, applied.a)]])

\* serializeError(err) and, where it returned, deserializeError of what it
\* returned and serializeError of that
serializeErrorApplied ==
    /\ applied.fn = "serializeError"
    /\ LET out == serializeError(applied.err)
           back == IF out.ok THEN deserializeError(out.json) ELSE Threw(NoErr)
           again == IF out.ok /\ back.ok THEN serializeError(back.err) ELSE Threw(NoErr)
       IN  Returns([done |-> TRUE, out |-> out, back |-> back, again |-> again])

deserializeErrorApplied ==
    /\ applied.fn = "deserializeError"
    /\ Returns([done |-> TRUE, out |-> deserializeError(applied.obj)])

isFulfilledApplied ==
    /\ applied.fn = "isFulfilled"
    /\ Returns([done |-> TRUE, out |-> isFulfilled])

NextHelpers ==
    \/ jsonEqualsApplied
    \/ serializeErrorApplied
    \/ deserializeErrorApplied
    \/ isFulfilledApplied

SpecHelpers == InitHelpers /\ [][NextHelpers]_vars

(***************************************************************************)
(* The names of the snapshot files.  A string is modelled here as the      *)
(* sequence of its characters, so that two names are equal exactly when    *)
(* their texts are.                                                        *)
(***************************************************************************)
DigitChars == <<"0", "1", "2", "3", "4", "5", "6", "7", "8", "9">>

\* num.toString() of a natural number
RECURSIVE toString(_)
toString(num) ==
    IF num < 10 THEN <<DigitChars[num + 1]>>
    ELSE toString(num \div 10) \o <<DigitChars[(num % 10) + 1]>>

\* str.padStart(size, fill): a string of size or more characters is returned
\* as it is
padStart(str, size, fill) ==
    IF Len(str) >= size THEN str
    ELSE [i \in 1..(size - Len(str)) |-> fill] \o str

\* (mutant) the number is cut to its last `size` digits
padZerosFixedWidth(num, size) ==
    LET str == padStart(toString(num), size, "0")
    IN  SubSeq(str, Len(str) - size + 1, Len(str))

padZeros(num, size) == padStart(toString(num), size, "0")

\* `${name}-${padZeros(index + 1, 3)}.json`
filename(name, i) ==
    name \o <<"-">> \o padZeros(i + 1, 3) \o <<".", "j", "s", "o", "n">>

\* names of fixtures: div, div1, div-1, div-001, div-1000
FixtureNames ==
    { <<"d", "i", "v">>, <<"d", "i", "v", "1">>, <<"d", "i", "v", "-", "1">>,
      <<"d", "i", "v", "-", "0", "0", "1">>, <<"d", "i", "v", "-", "1", "0", "0", "0">> }

\* call indices: the first, those around each change of the number of digits
\* of index + 1, and some whose last three digits are those of another
CallIndices == {0, 1, 8, 9, 10, 98, 99, 100, 998, 999, 1000, 1001, 1999, 9999, 10000}

InitKeys ==
    /\ files = [path \in 1..MaxCalls |-> NoFile]
    /\ updateSnapshot = "none"
    /\ allowOnlyOneUpdatePerTest = FALSE
    /\ index = 0
    /\ updatedCount = 0
    /\ calls = <<>>
    /\ files0 = files
    /\ prev = NoPrev
    /\ applied \in { [fn |-> "getSnapshotFile", a |-> a, b |-> b] :
                        a, b \in [name : FixtureNames, index : CallIndices] }
    /\ ret = NoRet
    /\ other = NoInstance

\* the file names getSnapshotFile makes for two fixtures' invocations
filenameApplied ==
    /\ applied.fn = "getSnapshotFile"
    /\ Returns([done |-> TRUE,
                a |-> filename(applied.a.name, applied.a.index),
                b |-> filename(applied.b.name, applied.b.index)])

NextKeys == filenameApplied

SpecKeys == InitKeys /\ [][NextKeys]_vars

(***************************************************************************)
(* isFulfilled() over a snapshots folder that holds the files of several   *)
(* fixtures.  The folder is what readdirSync lists, in name order.         *)
(***************************************************************************)
Div == <<"d", "i", "v">>

DivSuccess == <<"d", "i", "v", "-", "s", "u", "c", "c", "e", "s", "s">>

Divide == <<"d", "i", "v", "i", "d", "e">>

\* div-001.json, div-002.json, div-success-001.json, div-success-002.json,
\* divide-001.json
DirectoryEntries ==
    << filename(Div, 0), filename(Div, 1), filename(DivSuccess, 0), filename(DivSuccess, 1),
       filename(Divide, 0) >>

\* the folders: any of the files above
Listings ==
    { SelectSeq(DirectoryEntries, LAMBDA entry : entry \in present) :
        present \in SUBSET { DirectoryEntries[i] : i \in 1..Len(DirectoryEntries) } }

startsWith(str, prefix) ==
    Len(str) >= Len(prefix) /\ SubSeq(str, 1, Len(prefix)) = prefix

endsWith(str, suffix) ==
    Len(str) >= Len(suffix) /\ SubSeq(str, Len(str) - Len(suffix) + 1, Len(str)) = suffix

\* getSnapshotFiles(name, snapshotsFolder) over a listing
getSnapshotFilesIn(name, listing) ==
    SelectSeq(listing,
              LAMBDA entry : /\ startsWith(entry, name \o <<"-">>)
                             /\ endsWith(entry, <<".", "j", "s", "o", "n">>))

\* isMockFulfilled({ name, callsCount, snapshotsFolder }) over a listing
isMockFulfilledIn(name, callsCount, listing) ==
    LET snapshotFiles == getSnapshotFilesIn(name, listing)
        missingCalls == Slice(snapshotFiles, callsCount)
    IN  [success |-> Len(missingCalls) = 0, missing |-> missingCalls,
         made |-> callsCount, total |-> Len(snapshotFiles)]

InitListing ==
    /\ files = [path \in 1..MaxCalls |-> NoFile]
    /\ updateSnapshot = "none"
    /\ allowOnlyOneUpdatePerTest = FALSE
    /\ index \in 0..MaxFiles
    /\ updatedCount = 0
    /\ calls = <<>>
    /\ files0 = files
    /\ prev = NoPrev
    /\ applied \in { [fn |-> "isMockFulfilled", name |-> name, listing |-> listing] :
                        name \in {Div, DivSuccess}, listing \in Listings }
    /\ ret = NoRet
    /\ other = NoInstance

\* mockFn.isFulfilled() of the fixture named applied.name
isMockFulfilledApplied ==
    /\ applied.fn = "isMockFulfilled"
    /\ Returns([done |-> TRUE, out |-> isMockFulfilledIn(applied.name, index, applied.listing)])

NextListing == isMockFulfilledApplied

SpecListing == InitListing /\ [][NextListing]_vars

(***************************************************************************)
(* mockFnCalls (src/src/mock-fn-calls.spec.ts, from line 56): a mock that  *)
(* is given the calls it expects, in order.  The mock of the tests is the  *)
(* one of Add, serialize the identity on the pair of numbers.  `index` is  *)
(* the closure's counter, `calls` its invocations in call order, `ret` the *)
(* last result of isFulfilled().                                           *)
(***************************************************************************)
\* longest list of expected calls
MaxExpected == 2

\* add_(1, 2), add_(5, 7), add_(1, 4)
AddArgs == {<<1, 2>>, <<5, 7>>, <<1, 4>>}

\* { args: [1, 2], returnValue: 3 }, ..., and one whose returnValue is not
\* the sum, to tell the entry's value from a computed one
MockCalls ==
    { [args |-> <<1, 2>>, returnValue |-> 3],
      [args |-> <<5, 7>>, returnValue |-> 12],
      [args |-> <<1, 4>>, returnValue |-> 5],
      [args |-> <<1, 2>>, returnValue |-> 0] }

ExpectedCallLists == SeqsUpTo(MockCalls, MaxExpected)

\* serialize: args => args
serialize(args) == JArr(<<JNum(args[1]), JNum(args[2])>>)

\* how the assertion's message shows a pair of numbers
inspect(args) == "[ " \o ToString(args[1]) \o ", " \o ToString(args[2]) \o " ]"

\* (mutant) arrays are equal when they have the same length
toEqualShallow(received, expected) ==
    /\ received.kind = expected.kind
    /\ Len(received.items) = Len(expected.items)

\* expect(received).toEqual(expected) on JSON values: recursive equality,
\* the order of an object's keys ignored
RECURSIVE toEqual(_, _)
toEqual(received, expected) ==
    /\ received.kind = expected.kind
    /\ CASE received.kind = "array" ->
               /\ Len(received.items) = Len(expected.items)
               /\ \A i \in 1..Len(received.items) :
                      toEqual(received.items[i], expected.items[i])
          [] received.kind = "object" ->
               /\ {received.keys[i] : i \in 1..Len(received.keys)}
                      = {expected.keys[i] : i \in 1..Len(expected.keys)}
               /\ \A i \in 1..Len(received.keys) :
                      toEqual(received.items[i], Get(expected, received.keys[i]))
          [] OTHER -> received = expected

\* (mutant) the message counts the calls made instead of the calls available
NoCallAvailableMsgCountsMade(length, currentIndex) ==
    ToString(currentIndex) \o " calls were available (this was #"
        \o ToString(currentIndex + 1) \o ")"

NoCallAvailableMsg(length, currentIndex) ==
    ToString(length) \o " calls were available (this was #"
        \o ToString(currentIndex + 1) \o ")"

\* the message of expect(value, message).toBeUndefined() failing: the
\* message given, then the assertion's own
NotUndefinedMsg(message, args) ==
    message \o ": expected " \o inspect(args) \o " to be undefined"

NotEqualMsg(args, expectedArgs) ==
    "expected " \o inspect(args) \o " to deeply equal " \o inspect(expectedArgs)

NotMadeMsg(length, i) == ToString(length - i) \o " expected calls were not made"

\* (mutant) the invocation is compared with the first expected call
expectedCallFirst(expectedCalls, currentIndex) ==
    IF expectedCalls # <<>>
    THEN [defined |-> TRUE, call |-> expectedCalls[1]]
    ELSE [defined |-> FALSE, call |-> [args |-> <<0, 0>>, returnValue |-> 0]]

\* expectedCalls[currentIndex]: undefined beyond the end of the list
expectedCallAt(expectedCalls, currentIndex) ==
    IF currentIndex < Len(expectedCalls)
    THEN [defined |-> TRUE, call |-> expectedCalls[currentIndex + 1]]
    ELSE [defined |-> FALSE, call |-> [args |-> <<0, 0>>, returnValue |-> 0]]

\* the body of the vi.fn: what one invocation returns or throws.  The
\* failing expect() throws an AssertionError
mockFnCallsBody(expectedCalls, currentIndex, args) ==
    LET expectedCall == expectedCallAt(expectedCalls, currentIndex)
        argsSerialized == serialize(args)
    IN  IF ~expectedCall.defined
        THEN Threw(Err("AssertionError",
                       NotUndefinedMsg(NoCallAvailableMsg(Len(expectedCalls), currentIndex),
                                       args)))
        ELSE IF toEqual(argsSerialized, serialize(expectedCall.call.args))
        THEN Returned(JNum(expectedCall.call.returnValue))
        ELSE Threw(Err("AssertionError", NotEqualMsg(args, expectedCall.call.args)))

\* fn(...args): const currentIndex = index++, then the body
mockFnCalls_fn(args) ==
    /\ applied.fn = "mockFnCalls"
    /\ Len(calls) < MaxExpected + 1
    /\ index' = index + 1
    /\ calls' = Append(calls, [args |-> args, currentIndex |-> index,
                               out |-> mockFnCallsBody(applied.expectedCalls, index, args)])
    /\ UNCHANGED <<files, updateSnapshot, allowOnlyOneUpdatePerTest, updatedCount,
                   files0, prev, applied, ret, other>>

\* fn.isFulfilled()
mockFnCalls_isFulfilled(expectedCalls, i) ==
    IF i < Len(expectedCalls)
    THEN [success |-> FALSE, error |-> NotMadeMsg(Len(expectedCalls), i)]
    ELSE [success |-> TRUE, error |-> ""]

\* expect(fn).toBeFulfilled(): the result of isFulfilled() is kept with the
\* number of invocations made by then
toBeFulfilled ==
    /\ applied.fn = "mockFnCalls"
    /\ ret' = [done |-> TRUE, n |-> Len(calls),
               out |-> mockFnCalls_isFulfilled(applied.expectedCalls, index)]
    /\ UNCHANGED <<files, updateSnapshot, allowOnlyOneUpdatePerTest, index, updatedCount,
                   calls, files0, prev, applied, other>>

InitCalls ==
    /\ files = [path \in 1..MaxCalls |-> NoFile]
    /\ updateSnapshot = "none"
    /\ allowOnlyOneUpdatePerTest = FALSE
    /\ index = 0
    /\ updatedCount = 0
    /\ calls = <<>>
    /\ files0 = files
    /\ prev = NoPrev
    /\ applied \in { [fn |-> "mockFnCalls", expectedCalls |-> expectedCalls] :
                        expectedCalls \in ExpectedCallLists }
    /\ ret = NoRet
    /\ other = NoInstance

NextCalls ==
    \/ \E args \in AddArgs : mockFnCalls_fn(args)
    \/ toBeFulfilled

SpecCalls == InitCalls /\ [][NextCalls]_vars

(***************************************************************************)
(* The earlier variant, recordAndReplayFnCalls.  A record is                *)
(* { args, returnValue } in `${name}-call-${index + 1}.json`; there is no  *)
(* try/catch and no MockState, and an overwrite in "all" mode is followed  *)
(* by preventFurtherSnapshotUpdates().  The test builds two fixtures, so   *)
(* in this specification files and index are keyed by the fixture's name.  *)
(***************************************************************************)
\* the fixtures: "addP" of the test, "add" of the documented example
Fixtures == {"addP", "add"}

\* the arguments the test passes: { a: 1, b: 2 } and { a: 3, b: 5 }
AddPairs == {<<1, 2>>, <<3, 5>>}

\* async function addP(values) { return values.a + values.b }
addP(values) == Resolved(values[1] + values[2])

\* options.serializeArgs: args => args, for addP(values) and for add(a, b)
options_serializeArgs(name, args) ==
    IF name = "addP"
    THEN JArr(<<JObj(<<"a", "b">>, <<JNum(args[1]), JNum(args[2])>>)>>)
    ELSE JArr(<<JNum(args[1]), JNum(args[2])>>)

\* options.serializeReturnValue: res => res
options_serializeReturnValue(num) == JNum(num)

\* options.deserializeReturnValue: obj => zod.number().parse(obj)
options_deserializeReturnValue(obj) ==
    IF obj.kind = "number" THEN Resolved(obj.n)
    ELSE Rejected(Err("ZodError", "Expected number, received " \o obj.kind))

\* type SerializedCall = { args, returnValue } of the earlier variant
SerializedCallReturnValue(args, returnValue) ==
    JObj(<<"args", "returnValue">>, <<args, returnValue>>)

\* expectCallMatchesSnapshot: JSON.stringify(call, null, 4), no newline
\* added, handed to the runner's assertion
expectCallMatchesSnapshot(call, file, mode) ==
    toMatchFileSnapshot(Text(Indent, FALSE, call), file, mode)

getSnapshotsUpdateMode(mode) ==
    CASE mode = "none" -> [ok |-> TRUE, mode |-> "NONE", err |-> NoErr]
      [] mode = "new"  -> [ok |-> TRUE, mode |-> "CREATE", err |-> NoErr]
      [] mode = "all"  -> [ok |-> TRUE, mode |-> "CREATE_AND_UPDATE", err |-> NoErr]
      [] OTHER -> [ok |-> FALSE, mode |-> "",
                   err |-> Err("Error", "Unknown snapshot update mode: " \o mode)]

\* what a snapshot file of a fixture may hold before the run: nothing, or
\* the record of the fixture's call with 1 and 2
InitFileOf(name) ==
    { NoFile,
      Text(Indent, FALSE,
           SerializedCallReturnValue(options_serializeArgs(name, <<1, 2>>), JNum(3))) }

InitFilesCalls ==
    { folder \in [Fixtures \X (1..MaxCalls) -> UNION { InitFileOf(name) : name \in Fixtures }] :
        \A fp \in Fixtures \X (1..MaxCalls) : folder[fp] \in InitFileOf(fp[1]) }

\* the state of one invocation of the earlier mockFn
\*   name:     the fixture invoked
\*   contents: snapshotFile.contents, read when the invocation started
\*   mode:     updateMode, read when the invocation started
\*   branch:   the arm of the if/else it took
\*   call:     the record it proposes to the runner
Call(name, args, currentIndex, mode, contents, branch, pc, fnCalls, call, out) ==
    [name |-> name, args |-> args, index |-> currentIndex, mode |-> mode,
     contents |-> contents, branch |-> branch, pc |-> pc, fnCalls |-> fnCalls,
     call |-> call, fnOut |-> Pending, out |-> out]

\* the arm of mockFn's if/else an invocation takes
recordAndReplayFnCalls_branch(argsSerialized, contents, updateMode) ==
    IF ~contents.exists
    THEN IF updateMode = "NONE" THEN "none" ELSE "create"
    ELSE IF ~contents.parses THEN "JSON.parse"
    ELSE IF jsonEquals(argsSerialized, Get(contents.doc, "args")) THEN "replay"
    ELSE IF updateMode = "CREATE_AND_UPDATE" THEN "update"
    ELSE "mismatch"

\* the earlier mockFn(...args), up to its first await
recordAndReplayFnCalls_mockFn(name, args) ==
    /\ Len(calls) < MaxCalls
    /\ LET currentIndex == index[name]
           contents == files[<<name, currentIndex + 1>>]
           m == getSnapshotsUpdateMode(updateSnapshot)
           argsSerialized == options_serializeArgs(name, args)
           branch == recordAndReplayFnCalls_branch(argsSerialized, contents, m.mode)
           expected == contents.doc
           new(b, pc, fnCalls, call, out) ==
               Call(name, args, currentIndex, m.mode, contents, b, pc, fnCalls, call, out)
       IN  /\ index' = [index EXCEPT ![name] = currentIndex + 1]
           /\ calls' = Append(calls,
                IF ~m.ok
                THEN new("getSnapshotsUpdateMode", "done", 0, JNull, Rejected(m.err))
                ELSE CASE branch = "none" ->
                            new(branch, "awaitMatch", 0,
                                SerializedCallReturnValue(argsSerialized, JNull), Pending)
                       [] branch = "create" ->
                            new(branch, "awaitFn", 1, JNull, Pending)
                       [] branch = "JSON.parse" ->
                            new(branch, "done", 0, JNull,
                                Rejected(Err("SyntaxError", "Unexpected token")))
                       [] branch = "replay" ->
                            new(branch, "done", 0, JNull,
                                options_deserializeReturnValue(Get(expected, "returnValue")))
                       [] branch = "update" ->
                            new(branch, "awaitFn", 1, JNull, Pending)
                       [] OTHER ->
                            new(branch, "awaitMatch", 0,
                                SerializedCallReturnValue(argsSerialized,
                                                          Get(expected, "returnValue")),
                                Pending))
    /\ UNCHANGED <<files, updateSnapshot, allowOnlyOneUpdatePerTest, updatedCount, files0,
                   prev, applied, ret, other>>

\* options.realFunction settles: its value is serialized and the record
\* proposed; a rejection would leave the mock as it came
realFunctionSettles(k) ==
    /\ calls[k].pc = "awaitFn"
    /\ LET c == calls[k]
           r == addP(c.args)
       IN  calls' = [calls EXCEPT ![k] =
               IF r.st = "resolved"
               THEN [c EXCEPT !.fnOut = r, !.pc = "awaitMatch",
                              !.call = SerializedCallReturnValue(
                                           options_serializeArgs(c.name, c.args),
                                           options_serializeReturnValue(r.num))]
               ELSE [c EXCEPT !.fnOut = r, !.pc = "done", !.out = r]]
    /\ UNCHANGED <<files, updateSnapshot, allowOnlyOneUpdatePerTest, index, updatedCount,
                   files0, prev, applied, ret, other>>

\* (mutant) the update mode is left as it was after an overwrite
expectCallMatchesSnapshotThenKeepsMode(c, pass, mode) ==
    LET assertion == Rejected(Err("AssertionError", "Snapshot mismatched"))
    IN  CASE ~pass -> [out |-> assertion, updateSnapshot |-> mode]
          [] c.branch = "none" ->
                [out |-> Rejected(Err("Error", "Invariant broken")), updateSnapshot |-> mode]
          [] c.branch = "mismatch" ->
                [out |-> Rejected(Err("Error", "Unreachable")), updateSnapshot |-> mode]
          [] OTHER -> [out |-> Resolved(c.fnOut.num), updateSnapshot |-> mode]

\* what follows the awaited expectCallMatchesSnapshot, by the arm it was
\* awaited in: the failed assertion propagates; after an overwrite,
\* preventFurtherSnapshotUpdates() sets _updateSnapshot to "none"
expectCallMatchesSnapshotThen(c, pass, mode) ==
    LET assertion == Rejected(Err("AssertionError", "Snapshot mismatched"))
    IN  CASE ~pass -> [out |-> assertion, updateSnapshot |-> mode]
          [] c.branch = "none" ->
                [out |-> Rejected(Err("Error", "Invariant broken")), updateSnapshot |-> mode]
          [] c.branch = "mismatch" ->
                [out |-> Rejected(Err("Error", "Unreachable")), updateSnapshot |-> mode]
          [] c.branch = "update" ->
                [out |-> Resolved(c.fnOut.num), updateSnapshot |-> "none"]
          [] OTHER -> [out |-> Resolved(c.fnOut.num), updateSnapshot |-> mode]

\* the runner answers the expectCallMatchesSnapshot an invocation awaits
expectCallMatchesSnapshotSettles(k) ==
    /\ calls[k].pc = "awaitMatch"
    /\ LET c == calls[k]
           fp == <<c.name, c.index + 1>>
           m == expectCallMatchesSnapshot(c.call, files[fp], updateSnapshot)
           a == expectCallMatchesSnapshotThen(c, m.pass, updateSnapshot)
       IN  /\ files' = [files EXCEPT ![fp] = m.content]
           /\ calls' = [calls EXCEPT ![k] = [c EXCEPT !.pc = "done", !.out = a.out]]
           /\ updateSnapshot' = a.updateSnapshot
    /\ UNCHANGED <<allowOnlyOneUpdatePerTest, index, updatedCount, files0, prev, applied,
                   ret, other>>

InitEarlier ==
    /\ files \in InitFilesCalls
    /\ updateSnapshot \in UpdateModes
    /\ allowOnlyOneUpdatePerTest = FALSE
    /\ index = [name \in Fixtures |-> 0]
    /\ updatedCount = 0
    /\ calls = <<>>
    /\ files0 = files
    /\ prev = NoPrev
    /\ applied = NoHelper
    /\ ret = NoRet
    /\ other = NoInstance

NextEarlier ==
    \/ \E name \in Fixtures, args \in AddPairs : recordAndReplayFnCalls_mockFn(name, args)
    \/ \E k \in 1..Len(calls) : realFunctionSettles(k)
    \/ \E k \in 1..Len(calls) : expectCallMatchesSnapshotSettles(k)

SpecEarlier == InitEarlier /\ [][NextEarlier]_vars

(***************************************************************************)
(* Properties.                                                             *)
(***************************************************************************)
Path(c) == c.index + 1

\* the runner's update mode was, at every assertion the invocation awaited,
\* the one it started under
ModeHeld(c) ==
    \A i \in 1..Len(c.matches) :
        /\ getSnapshotsMode(c.matches[i].mode).ok
        /\ getSnapshotsMode(c.matches[i].mode).mode = c.mode

FoundMatch(c) ==
    /\ c.mode \in Modes
    /\ snapshotExists(c.call)
    /\ jsonEquals(serializeArgs(c.args), Get(c.call, "args"))

FoundMismatch(c) ==
    /\ c.mode \in Modes
    /\ snapshotExists(c.call)
    /\ ~jsonEquals(serializeArgs(c.args), Get(c.call, "args"))

GuardError == Rejected(Err("Error", GuardMsg))

\* the record of the invocation's arguments with the outcome the real
\* function gave, as the mock writes it
FreshRecord(c) ==
    Text(Indent, TRUE,
         SerializedCall(serializeArgs(c.args),
                        IF div(c.args).st = "resolved"
                        THEN Success(serializeSuccess(div(c.args).num))
                        ELSE Failure(serializeError(div(c.args).err).json)))

\* C1: an invocation that finds a well-formed record whose args equal (by
\* jsonEquals) its serialized args, in any of the three modes, does not call
\* the real function, proposes and writes nothing, and settles at once with
\* deserialize.success(result.data) if result.success is true, else rejects
\* with deserialize.error(result.error).
C1_Replay ==
    \A k \in 1..Len(calls) :
        LET c == calls[k]
            result == Get(c.call, "result")
            d == deserializeSuccess(Get(result, "data"))
        IN  FoundMatch(c) =>
                /\ c.fnCalls = 0
                /\ c.matches = <<>>
                /\ files[Path(c)] = c.read
                /\ c.pc = "done"
                /\ c.out = IF Get(result, "success") = JBool(TRUE)
                           THEN (IF d.ok THEN Resolved(d.json.n) ELSE Rejected(d.err))
                           ELSE Rejected(deserializeError(Get(result, "error")).err)

C1_Witness ==
    \E j, k \in 1..Len(calls) :
        /\ FoundMatch(calls[j]) /\ calls[j].out = Resolved(3)
        /\ FoundMatch(calls[k]) /\ calls[k].mode = "NONE"
        /\ calls[k].out = Rejected(Err("Error", "Division by zero"))

\* C2: in mode NONE an invocation that finds no record at its index (no
\* file, or a file that is no well-formed record) never calls the real
\* function, never resolves, is rejected once settled, and leaves the file
\* as it was, so no record is created.
C2_NoneWithoutRecordFails ==
    \A k \in 1..Len(calls) :
        LET c == calls[k]
        IN  (c.mode = "NONE" /\ ~snapshotExists(c.call)) =>
                /\ c.fnCalls = 0
                /\ c.out.st # "resolved"
                /\ (c.pc = "done" => c.out.st = "rejected")
                /\ files[Path(c)] = c.read
                /\ ~snapshotExists(getSnapshotFile(files, c.index).call)

C2_Witness ==
    \E k \in 1..Len(calls) :
        /\ calls[k].mode = "NONE" /\ ~calls[k].read.exists
        /\ calls[k].pc = "done" /\ calls[k].out.st = "rejected"
        /\ ~files[Path(calls[k])].exists

\* C3: in mode CREATE or CREATE_AND_UPDATE an invocation that finds no file
\* at its index calls the real function exactly once; when the function
\* resolved with v and the mode held, the invocation ends with the record
\* {args: serialize.args(args), result: {success: true, data:
\* serialize.success(v)}} in the file of its index, proposed once, and
\* resolves with v; no step of the invocation changes another file.
C3_CreateFound(c) == c.mode \in {"CREATE", "CREATE_AND_UPDATE"} /\ ~c.read.exists

C3_State ==
    \A k \in 1..Len(calls) :
        LET c == calls[k]
        IN  C3_CreateFound(c) =>
                /\ c.fnCalls = 1
                /\ (c.pc = "done" /\ ModeHeld(c) /\ c.fnOut.st = "resolved") =>
                      /\ files[Path(c)] =
                            Text(Indent, TRUE,
                                 SerializedCall(serializeArgs(c.args),
                                                Success(serializeSuccess(c.fnOut.num))))
                      /\ Len(c.matches) = 1
                      /\ c.fnOut = div(c.args)
                      /\ c.out = Resolved(c.fnOut.num)

C3_Step ==
    \A k \in 1..Len(calls) :
        (C3_CreateFound(calls[k]) /\ calls'[k] # calls[k]) =>
            \A path \in DOMAIN files : path # k => files'[path] = files[path]

C4_MismatchFails ==
    \A k \in 1..Len(calls) :
        LET c == calls[k]
        IN  (c.mode \in {"NONE", "CREATE"} /\ FoundMismatch(c)) =>
                /\ c.fnCalls = 0
                /\ c.out.st # "resolved"
                /\ (c.pc = "done" => c.out.st = "rejected")
                /\ files[Path(c)] = c.read

\* records [6,2] and [10,5] stored, mode NONE, first call div(10,1)
C4_Witness ==
    /\ Len(calls) >= 1
    /\ Get(files0[1].doc, "args") = serializeArgs(<<6, 2>>)
    /\ Get(files0[2].doc, "args") = serializeArgs(<<10, 5>>)
    /\ calls[1].mode = "NONE" /\ calls[1].args = <<10, 1>>
    /\ calls[1].pc = "done" /\ calls[1].out.st = "rejected"
    /\ files = files0

\* C5: in mode CREATE_AND_UPDATE an invocation that finds a mismatched record
\* and is not refused by the guard (the option is off or updatedCount is 0)
\* calls the real function exactly once and, the mode holding, ends with the
\* file of its index overwritten by its serialized args and the fresh outcome
\* and with the real function's outcome as its own.
C5_Update ==
    \A k \in 1..Len(calls) :
        LET c == calls[k]
        IN  (/\ c.mode = "CREATE_AND_UPDATE" /\ FoundMismatch(c)
             /\ ~(allowOnlyOneUpdatePerTest /\ c.count > 0)) =>
                /\ c.fnCalls = 1
                /\ (c.pc = "done" /\ ModeHeld(c)) =>
                      /\ files[Path(c)] = FreshRecord(c)
                      /\ c.out = div(c.args)

C5_Witness ==
    \E k \in 1..Len(calls) :
        /\ calls[k].mode = "CREATE_AND_UPDATE" /\ FoundMismatch(calls[k])
        /\ calls[k].pc = "done" /\ ModeHeld(calls[k])
        /\ calls[k].out = Resolved(10)
        /\ files[k] # files0[k]

\* C6: with allowOnlyOneUpdatePerTest, once an invocation of the instance has
\* gone on to overwrite a mismatched record, every later invocation that
\* finds a mismatched record in CREATE_AND_UPDATE rejects with the guard
\* error, does not call the real function, proposes nothing and leaves its
\* file as it was.
C6_SecondUpdateRefused ==
    \A j, k \in 1..Len(calls) :
        (/\ j < k
         /\ allowOnlyOneUpdatePerTest
         /\ calls[j].branch = "callFunctionAndUpdateSnapshot" /\ calls[j].fnCalls = 1
         /\ calls[k].mode = "CREATE_AND_UPDATE" /\ FoundMismatch(calls[k])) =>
            /\ calls[k].out = GuardError
            /\ calls[k].pc = "done"
            /\ calls[k].fnCalls = 0
            /\ calls[k].matches = <<>>
            /\ files[k] = calls[k].read

\* two mismatched records: the first ends updated, the second as stored
C6_Witness ==
    /\ Len(calls) = 2
    /\ allowOnlyOneUpdatePerTest
    /\ FoundMismatch(calls[1]) /\ FoundMismatch(calls[2])
    /\ calls[1].pc = "done" /\ files[1] = FreshRecord(calls[1]) /\ files[1] # files0[1]
    /\ calls[2].out = GuardError /\ files[2] = files0[2]

\* C7 (as claimed): with allowOnlyOneUpdatePerTest in CREATE_AND_UPDATE, the
\* first invocation of the instance that finds a mismatched record is let
\* through to the real function, whatever invocations came before it.
C7_FirstUpdatePermitted ==
    \A k \in 1..Len(calls) :
        (/\ allowOnlyOneUpdatePerTest
         /\ calls[k].mode = "CREATE_AND_UPDATE" /\ FoundMismatch(calls[k])
         /\ \A j \in 1..(k - 1) : ~FoundMismatch(calls[j])) =>
            /\ calls[k].out # GuardError
            /\ calls[k].fnCalls = 1

\* C8: without allowOnlyOneUpdatePerTest no invocation is rejected with the
\* guard error, and every invocation that finds a mismatched record in
\* CREATE_AND_UPDATE calls the real function once and, the mode holding, ends
\* with its file overwritten and the real function's outcome as its own.
C8_AllUpdatesAllowed ==
    ~allowOnlyOneUpdatePerTest =>
        \A k \in 1..Len(calls) :
            LET c == calls[k]
            IN  /\ c.out # GuardError
                /\ (c.mode = "CREATE_AND_UPDATE" /\ FoundMismatch(c)) =>
                      /\ c.fnCalls = 1
                      /\ (c.pc = "done" /\ ModeHeld(c)) =>
                            /\ files[Path(c)] = FreshRecord(c)
                            /\ c.out = div(c.args)

\* two mismatched records, both updated, both invocations resolved
C8_Witness ==
    /\ Len(calls) = 2
    /\ ~allowOnlyOneUpdatePerTest
    /\ \A k \in 1..2 :
          /\ files0[k].exists /\ FoundMismatch(calls[k])
          /\ calls[k].pc = "done" /\ calls[k].out.st = "resolved"
          /\ files[k] = FreshRecord(calls[k]) /\ files[k] # files0[k]

\* the first k invocations of this run passed the arguments the first k of
\* the recorded run passed
SameCallsAsRecorded(k) ==
    /\ k <= Len(prev.calls)
    /\ \A j \in 1..k : calls[j].args = prev.calls[j].args

\* C9: after a first run over an empty folder in mode "new" or "all", a later
\* run in any of the three modes that makes the same calls in the same order
\* never calls the real function, proposes and writes nothing, settles each
\* invocation at once with the outcome the first run's invocation had (the
\* value, or an Error of the same message), and once it has made them all
\* isFulfilled() reports success.
C9_RecordThenReplay ==
    (prev.recorded /\ getSnapshotsMode(updateSnapshot).ok) =>
        \A k \in 1..Len(calls) :
            SameCallsAsRecorded(k) =>
                /\ calls[k].fnCalls = 0
                /\ calls[k].matches = <<>>
                /\ calls[k].pc = "done"
                /\ calls[k].out = prev.calls[k].out
                /\ (k = Len(calls) => files = files0)
                /\ (k = Len(calls) /\ k = Len(prev.calls) => isFulfilled.success)

\* div(6,2) and div(4,0) recorded, then replayed in mode "none"
C9_Witness ==
    /\ prev.recorded /\ updateSnapshot = "none"
    /\ Len(prev.calls) = 2 /\ Len(calls) = 2 /\ SameCallsAsRecorded(2)
    /\ calls[1].out = Resolved(3)
    /\ calls[2].out = Rejected(Err("Error", "Division by zero"))
    /\ isFulfilled.success

\* C10: the k-th invocation started takes call index k - 1 and is processed
\* against the file of record index k as the run found it, whatever became
\* of the invocations before it; the counter is the number of invocations
\* started.
C10_NthCallNthRecord ==
    /\ index = Len(calls)
    /\ \A k \in 1..Len(calls) :
          /\ calls[k].index = k - 1
          /\ calls[k].read = files0[k]

\* the first invocation still awaits the runner (it will fail for want of a
\* record) when the second has replayed record 2
C10_Witness ==
    /\ Len(calls) = 2
    /\ calls[1].branch = "failNoSnapshot" /\ calls[1].pc = "awaitMatch"
    /\ calls[2].branch = "deserializeResultFromSnapshot" /\ calls[2].pc = "done"
    /\ calls[2].read = files0[2]

\* an invocation that has started and whose promise is not settled
Suspended(c) == c.pc \in {"awaitFn", "awaitMatch"}

\* C11: every invocation started holds its call index from before its first
\* suspension: whatever the interleaving of the started invocations' awaits,
\* the counter has been advanced once for each of them, suspended or
\* settled, and no two of them took the same index or read the same file
\* path.
C11_IndexClaimedBeforeSuspension ==
    /\ index = Len(calls)
    /\ \A j, k \in 1..Len(calls) :
          j # k => /\ calls[j].index # calls[k].index
                   /\ Path(calls[j]) # Path(calls[k])
    /\ \A k \in 1..Len(calls) : calls[k].index \in 0..(index - 1)

\* two invocations of the real function overlap: both were started before
\* either settled
C11_Witness ==
    /\ Len(calls) = 2
    /\ calls[1].pc = "awaitFn" /\ calls[2].pc = "awaitFn"
    /\ calls[1].index = 0 /\ calls[2].index = 1

\* isFulfilled() was applied to the folder and counter of the state
FulfilledApplied == applied.fn = "isFulfilled" /\ ret.done

\* the record indices stored in the folder
StoredIndices == { path \in DOMAIN files : files[path].exists }

RecordedFailure(c) ==
    /\ \/ c.branch = "callFunctionAndCreateSnapshot" /\ ~c.read.exists
       \/ c.branch = "callFunctionAndUpdateSnapshot"
    /\ c.fnCalls = 1
    /\ c.fnOut.st = "rejected"

C14_OnlyPlainError ==
    (applied.fn = "serializeError" /\ ret.done) =>
        LET err == applied.err
        IN  IF err.ctor = "Error"
            THEN /\ ret.out.ok
                 /\ ret.out.json = JObj(<<"message">>, <<JStr(err.msg)>>)
            ELSE /\ ~ret.out.ok
                 /\ ret.out.json = JUndefined
                 /\ ret.out.err.ctor = "Error"
                 /\ ret.out.err.msg =
                        "Cannot serialize non-Error object (constructor: "
                            \o (IF err.ctor = "" THEN "unknown" ELSE err.ctor)
                            \o ") Extend serialize.error/deserialize.error to support that error type."

\* a TypeError is refused by name
C14_Witness ==
    /\ applied.fn = "serializeError" /\ ret.done
    /\ applied.err = Err("TypeError", "foo")
    /\ ~ret.out.ok
    /\ ret.out.err.msg =
          "Cannot serialize non-Error object (constructor: TypeError) Extend serialize.error/deserialize.error to support that error type."

\* an object with a message that is a string
HasStringMessage(obj) ==
    /\ obj.kind = "object"
    /\ \E i \in 1..Len(obj.keys) : obj.keys[i] = "message" /\ obj.items[i].kind = "string"

\* C15: for a plain Error e, deserializeError(serializeError(e)) is a plain
\* Error with e's message, and serializeError of it equals serializeError(e)
\* by jsonEquals; deserializeError returns an Error with the stored message
\* for an object with a string message and throws for every other JSON
\* value.
C15_RoundTrip ==
    /\ (applied.fn = "serializeError" /\ ret.done /\ applied.err.ctor = "Error") =>
          /\ ret.out.ok
          /\ ret.back.ok
          /\ ret.back.err = Err("Error", applied.err.msg)
          /\ ret.again.ok
          /\ jsonEquals(ret.again.json, ret.out.json)
    /\ (applied.fn = "deserializeError" /\ ret.done) =>
          IF HasStringMessage(applied.obj)
          THEN /\ ret.out.ok
               /\ \E i \in 1..Len(applied.obj.keys) :
                     /\ applied.obj.keys[i] = "message"
                     /\ ret.out.err = Err("Error", applied.obj.items[i].s)
          ELSE /\ ~ret.out.ok
               /\ ret.out.err = Err("Error", "Cannot deserialize error from invalid object")

\* the round trip of Error("Division by zero")
C15_Witness ==
    /\ applied.fn = "serializeError" /\ ret.done
    /\ applied.err = Err("Error", "Division by zero")
    /\ ret.out.json = JObj(<<"message">>, <<JStr("Division by zero")>>)
    /\ ret.back.err = Err("Error", "Division by zero")
    /\ ret.again = ret.out

\* jsonEquals was applied to the two values of the state
Compared == applied.fn = "jsonEquals" /\ ret.done

\* reflexive and symmetric, for the jsonEquals of json-equals.ts
ReflexiveSymmetric_main == Compared => ret.aa /\ (ret.ab <=> ret.ba)

\* reflexive and symmetric, for the jsonEquals of part_000
ReflexiveSymmetric_part000 ==
    Compared => ret.part000.aa = "true" /\ ret.part000.ab = ret.part000.ba

\* C16 (as claimed): for all JSON values a and b, jsonEquals(a, a) is true
\* and jsonEquals(a, b) = jsonEquals(b, a), for each jsonEquals of the
\* repository.
C16_ReflexiveSymmetric == ReflexiveSymmetric_main /\ ReflexiveSymmetric_part000

\* equality of JSON values as the claim defines it: the same kind; for
\* primitives the same value; for arrays the same length and equal elements
\* at every position; for objects the same set of keys and equal values per
\* key
RECURSIVE SameJson(_, _)
SameJson(a, b) ==
    /\ a.kind = b.kind
    /\ CASE a.kind = "array" ->
               /\ Len(a.items) = Len(b.items)
               /\ \A i \in 1..Len(a.items) : SameJson(a.items[i], b.items[i])
         [] a.kind = "object" ->
               /\ { a.keys[i] : i \in 1..Len(a.keys) } = { b.keys[i] : i \in 1..Len(b.keys) }
               /\ \A i \in 1..Len(a.keys) :
                     \A j \in 1..Len(b.keys) :
                         a.keys[i] = b.keys[j] => SameJson(a.items[i], b.items[j])
         [] OTHER -> a = b

\* equal exactly when the claim's equality holds, for json-equals.ts
KeyOrderIgnored_main == Compared => (ret.ab <=> SameJson(applied.a, applied.b))

\* equal exactly when the claim's equality holds, for part_000
KeyOrderIgnored_part000 ==
    Compared =>
        ret.part000.ab = (IF SameJson(applied.a, applied.b) THEN "true" ELSE "false")

\* C17 (as claimed): at every depth jsonEquals holds of two objects iff they
\* have the same key set and equal values per key, whatever the insertion
\* order, and of two arrays iff they have the same length and equal elements
\* at every position; for each jsonEquals of the repository.
C17_KeyOrderNotArrayOrder == KeyOrderIgnored_main /\ KeyOrderIgnored_part000

\* the six kinds of JSON value
JsonKinds == {"null", "string", "number", "boolean", "array", "object"}

\* C18: both comparators answer false for two values of different JSON
\* kinds (so null, false, 0, "", [] and {} are pairwise unequal, and
\* {length: 0} differs from []), and for two primitives of the same kind
\* answer true exactly when the values are the same.
C18_KindsNeverEquated ==
    Compared =>
        LET a == applied.a
            b == applied.b
        IN  /\ a.kind \in JsonKinds /\ b.kind \in JsonKinds
            /\ a.kind # b.kind => ~ret.ab /\ ret.part000.ab = "false"
            /\ (a.kind = b.kind /\ a.kind \in {"null", "string", "number", "boolean"}) =>
                  /\ ret.ab <=> a = b
                  /\ ret.part000.ab = (IF a = b THEN "true" ELSE "false")

\* { length: 0 } compared with []
C18_Witness ==
    /\ Compared
    /\ applied.a = JObj(<<"length">>, <<JNum(0)>>) /\ applied.b = JArr(<<>>)
    /\ ~ret.ab /\ ~ret.ba
    /\ ret.part000.ab = "false" /\ ret.part000.ba = "false"

\* the invocation found a file at its index that is no well-formed record
FoundMalformed(c) == c.read.exists /\ ~isSerializedCall(safeJsonParse(c.read))

\* C19 (as claimed): a malformed file is loaded as an absent record without
\* a throw, and in mode CREATE or CREATE_AND_UPDATE the invocation at its
\* index calls the real function and, the mode holding, ends with a
\* well-formed record in the file, which an invocation with the same args
\* replays in any mode.
C19_MalformedRecreated ==
    \A k \in 1..Len(calls) :
        LET c == calls[k]
            stored == getSnapshotFile(files, c.index).call
        IN  FoundMalformed(c) =>
                /\ ~snapshotExists(c.call)
                /\ c.mode \in {"CREATE", "CREATE_AND_UPDATE"} =>
                      /\ c.fnCalls = 1
                      /\ (c.pc = "done" /\ ModeHeld(c)) =>
                            /\ snapshotExists(stored)
                            /\ \A mode \in Modes :
                                  Switch(c.args, stored, mode) = "deserializeResultFromSnapshot"

\* the invocation a step starts, if it starts one
Started == calls'[Len(calls')]

\* C20, the step: an invocation started under the ambient value "none",
\* "new" or "all" works in mode NONE, CREATE or CREATE_AND_UPDATE; started
\* under any other value it is rejected in that step with an Error naming
\* the value, without a call of the real function, a proposal to the runner
\* or a change of the folder.
C20_Step ==
    Len(calls') = Len(calls) + 1 =>
        /\ updateSnapshot = "none" => Started.mode = "NONE"
        /\ updateSnapshot = "new" => Started.mode = "CREATE"
        /\ updateSnapshot = "all" => Started.mode = "CREATE_AND_UPDATE"
        /\ updateSnapshot \notin {"none", "new", "all"} =>
              /\ Started.mode \notin Modes
              /\ Started.pc = "done"
              /\ Started.out =
                    Rejected(Err("Error", "Unsupported snapshot update mode: " \o updateSnapshot))
              /\ Started.fnCalls = 0
              /\ Started.matches = <<>>
              /\ files' = files

\* C20, the state: an invocation that resolved no mode stays rejected, has
\* called nothing and proposed nothing, and its file is as it found it.
C20_State ==
    \A k \in 1..Len(calls) :
        LET c == calls[k]
        IN  c.mode \notin Modes =>
                /\ c.pc = "done" /\ c.out.st = "rejected"
                /\ c.fnCalls = 0
                /\ c.matches = <<>>
                /\ files[Path(c)] = c.read

\* C20, whole: the resolver maps the three values to the three modes and
\* every invocation under another value fails at once, calling and writing
\* nothing.
C20_ModeResolved == []C20_State /\ [][C20_Step]_vars

\* both invocations of a test run under the value "unknown" were rejected
\* and the folder, which had no file for them, is as it was
C20_Witness ==
    /\ Len(calls) = 2
    /\ updateSnapshot = "unknown"
    /\ \A k \in 1..2 :
          /\ calls[k].out =
                Rejected(Err("Error", "Unsupported snapshot update mode: unknown"))
          /\ calls[k].fnCalls = 0
          /\ ~files0[k].exists
    /\ files = files0

\* C21, the step: an invocation that starts works in the mode the ambient
\* value resolves to in that step and is dispatched by the switch under it;
\* the mode and the dispatch of an invocation already started stay what they
\* were, whatever becomes of the ambient value while it is suspended.
C21_Step ==
    /\ Len(calls') = Len(calls) + 1 =>
          LET m == getSnapshotsMode(updateSnapshot)
          IN  /\ Started.mode = m.mode
              /\ m.ok => Started.branch = Switch(Started.args, Started.call, m.mode)
    /\ \A k \in 1..Len(calls) :
          /\ calls'[k].mode = calls[k].mode
          /\ calls'[k].branch = calls[k].branch

\* C21: the mode is read once per invocation, when it starts, and not
\* memoized by the instance.
C21_ModeReadPerInvocation == [][C21_Step]_vars

\* the first invocation started under "all" and is still awaiting the real
\* function in mode CREATE_AND_UPDATE; the ambient value was then set to
\* "none" and the second invocation was decided in mode NONE
C21_Witness ==
    /\ Len(calls) = 2
    /\ calls[1].mode = "CREATE_AND_UPDATE" /\ calls[1].pc = "awaitFn"
    /\ updateSnapshot = "none"
    /\ calls[2].mode = "NONE" /\ calls[2].branch = "failNoSnapshot"

\* C22: the k-th invocation of a mockFnCalls mock is compared with the k-th
\* expected call and no other: it returns that entry's returnValue when its
\* arguments equal the entry's, and throws when they differ, whatever the
\* other entries are and whatever the earlier invocations did.
C22_OrderEnforced ==
    applied.fn = "mockFnCalls" =>
        \A k \in 1..Len(calls) :
            k <= Len(applied.expectedCalls) =>
                LET c == calls[k]
                    entry == applied.expectedCalls[k]
                IN  /\ c.currentIndex = k - 1
                    /\ c.args = entry.args =>
                          c.out = Returned(JNum(entry.returnValue))
                    /\ c.args # entry.args =>
                          /\ ~c.out.ok
                          /\ c.out.err.msg
                                = "expected " \o inspect(c.args) \o " to deeply equal "
                                      \o inspect(entry.args)

\* the second invocation returned the second entry's value although the
\* first invocation threw, its arguments being those of the second entry
C22_Witness ==
    /\ applied.fn = "mockFnCalls"
    /\ Len(calls) = 2 /\ Len(applied.expectedCalls) = 2
    /\ applied.expectedCalls[1].args # applied.expectedCalls[2].args
    /\ calls[1].args = applied.expectedCalls[2].args
    /\ ~calls[1].out.ok
    /\ calls[2].args = applied.expectedCalls[2].args
    /\ calls[2].out = Returned(JNum(applied.expectedCalls[2].returnValue))

\* C23: an invocation beyond the end of the expected calls never returns: it
\* throws an error that says how many calls were available and which call
\* this was ("N calls were available (this was #k)").
C23_BeyondTheList ==
    applied.fn = "mockFnCalls" =>
        \A k \in 1..Len(calls) :
            k > Len(applied.expectedCalls) =>
                /\ ~calls[k].out.ok
                /\ calls[k].out.err.msg
                      = ToString(Len(applied.expectedCalls))
                          \o " calls were available (this was #" \o ToString(k)
                          \o "): expected " \o inspect(calls[k].args)
                          \o " to be undefined"

\* two invocations of a mock that expects one call: the second is refused,
\* and so is one more after it
C23_Witness ==
    /\ applied.fn = "mockFnCalls"
    /\ Len(applied.expectedCalls) = 1
    /\ Len(calls) = 3
    /\ calls[1].out.ok
    /\ ~calls[2].out.ok /\ ~calls[3].out.ok

\* C24: isFulfilled() after n invocations reports failure with
\* "<expectedCalls.length - n> expected calls were not made" when
\* n < expectedCalls.length and success otherwise, and success means that
\* every expected call was matched by an invocation with equal arguments.
C24_Fulfilled ==
    (applied.fn = "mockFnCalls" /\ ret.done) =>
        LET length == Len(applied.expectedCalls)
        IN  /\ ret.n < length =>
                  /\ ~ret.out.success
                  /\ ret.out.error
                        = ToString(length - ret.n) \o " expected calls were not made"
            /\ ret.n >= length => ret.out.success
            /\ ret.out.success =>
                  \A i \in 1..length : calls[i].args = applied.expectedCalls[i].args

\* C25: replay mode has no effects: an invocation made in mode NONE, whether
\* it finds a matching record, a mismatching one or none, never calls the
\* real function and leaves the file at its index as it found it, and while
\* every invocation of the run was made in mode NONE the folder is what it
\* was when the run began; in mode CREATE the real function is called
\* only by an invocation that found no well-formed record at its index.
C25_ReplayHasNoEffects ==
    /\ \A k \in 1..Len(calls) :
          LET c == calls[k]
          IN  /\ c.mode = "NONE" => c.fnCalls = 0 /\ files[Path(c)] = c.read
              /\ (c.mode = "CREATE" /\ c.fnCalls > 0) => ~snapshotExists(c.call)
    /\ (\A k \in 1..Len(calls) : calls[k].mode = "NONE") => files = files0

\* a run in mode NONE over one record: the first invocation mismatched it,
\* the second went beyond the stored records, both have settled
C25_Witness ==
    /\ Len(calls) = 2
    /\ \A k \in 1..2 : calls[k].mode = "NONE" /\ calls[k].pc = "done"
    /\ FoundMismatch(calls[1])
    /\ ~calls[2].read.exists
    /\ files = files0

\* the records of the folder the run began over that were well-formed and
\* that have another content now
Overwritten ==
    { path \in 1..MaxCalls :
        /\ isSerializedCall(safeJsonParse(files0[path]))
        /\ files[path] # files0[path] }

\* C26: records are never deleted, and a well-formed record changes only by
\* a licensed overwrite: every file that existed when the run began exists,
\* and a well-formed record has another content only if an invocation at its
\* index, in mode CREATE_AND_UPDATE, found that its arguments mismatch it; no
\* invocation in mode NONE or CREATE changes the well-formed record it found.
C26_RecordsImmutable ==
    /\ \A path \in 1..MaxCalls : files0[path].exists => files[path].exists
    /\ \A path \in Overwritten :
          \E k \in 1..Len(calls) :
              /\ Path(calls[k]) = path
              /\ calls[k].mode = "CREATE_AND_UPDATE"
              /\ FoundMismatch(calls[k])
    /\ \A k \in 1..Len(calls) :
          (calls[k].mode \in {"NONE", "CREATE"} /\ snapshotExists(calls[k].call))
              => files[Path(calls[k])] = calls[k].read

\* one record was overwritten by a mismatching invocation in
\* CREATE_AND_UPDATE and a mismatching invocation in mode NONE, made after
\* the mode changed, left the other as it was
C26_Witness ==
    /\ Overwritten = {1}
    /\ Len(calls) = 2
    /\ calls[1].mode = "CREATE_AND_UPDATE" /\ FoundMismatch(calls[1])
    /\ calls[2].mode = "NONE" /\ FoundMismatch(calls[2]) /\ calls[2].pc = "done"
    /\ files[2] = files0[2]

\* the invocations the guard let through to overwrite the record they found
LetThroughToUpdate ==
    { k \in 1..Len(calls) :
        calls[k].branch = "callFunctionAndUpdateSnapshot" /\ calls[k].fnCalls = 1 }

\* C27 (as claimed): updatedCount is the number of overwrites of the
\* instance, counted from the moment the guard lets the overwriting
\* invocation through; an invocation that replays, fails or creates a record
\* where there was none leaves it as it is.
C27_CountsOverwrites == updatedCount = Cardinality(LetThroughToUpdate)

\* C28: with allowOnlyOneUpdatePerTest the guard lets at most one invocation
\* through to overwrite a record, and at most one well-formed record of the
\* folder has another content, however the invocations interleave.
C28_AtMostOneOverwrite ==
    allowOnlyOneUpdatePerTest =>
        /\ Cardinality(LetThroughToUpdate) <= 1
        /\ Cardinality(Overwritten) <= 1

\* two concurrent invocations that both found a mismatched record in
\* CREATE_AND_UPDATE: the second was refused while the first was still
\* awaiting the real function
C28_Witness ==
    /\ allowOnlyOneUpdatePerTest
    /\ Len(calls) = 2
    /\ calls[1].mode = "CREATE_AND_UPDATE" /\ FoundMismatch(calls[1])
    /\ calls[2].mode = "CREATE_AND_UPDATE" /\ FoundMismatch(calls[2])
    /\ calls[1].pc = "awaitFn"
    /\ calls[2].out = GuardError

\* the invocations of an instance number from index 0, and the instance's
\* counters count its own invocations: the index the invocations it made,
\* updatedCount those of them that callFunctionAndSaveSnapshot let through
OwnCounters(instanceCalls, instanceIndex, instanceUpdatedCount) ==
    /\ \A k \in 1..Len(instanceCalls) : instanceCalls[k].index = k - 1
    /\ instanceIndex = Len(instanceCalls)
    /\ instanceUpdatedCount
          = Cardinality({k \in 1..Len(instanceCalls) : instanceCalls[k].fnCalls = 1})

\* C29: the state of a fixture is its instance's own: of two instances built
\* with the same name each numbers its invocations from the first index and
\* so addresses the same files, and the index and the update counter of
\* each count that instance's invocations only, whatever the other was
\* invoked in between.
C29_PerInstanceState ==
    /\ OwnCounters(calls, index, updatedCount)
    /\ OwnCounters(other.calls, other.index, other.updatedCount)

\* the test is back at its first instance, which has made two invocations
\* and let both through; the second instance has made one, at the first
\* index as well, and let it through
C29_Witness ==
    /\ other.exists /\ other.id = 2
    /\ Len(calls) = 2 /\ index = 2 /\ updatedCount = 2
    /\ Len(other.calls) = 1 /\ other.index = 1 /\ other.updatedCount = 1
    /\ Path(calls[1]) = 1 /\ Path(other.calls[1]) = 1

\* C30: when the real function rejects with a value that serialize.error
\* refuses, the invocation rejects with the codec's error, which names the
\* value's constructor, and not with the value; nothing was proposed to the
\* runner and there is no record at the invocation's index, so that in the
\* run after it every invocation in a writing mode calls the real function
\* again.
C30_RefusedErrorNotRecorded ==
    (applied.fn = "recordAndReplayFnMock" /\ applied.err.ctor # "Error") =>
        \A k \in 1..Len(calls) :
            LET c == calls[k]
                name == IF applied.err.ctor = "" THEN "unknown" ELSE applied.err.ctor
            IN  /\ c.mode \in {"CREATE", "CREATE_AND_UPDATE"} => c.fnCalls = 1
                /\ (c.fnCalls = 1 /\ c.pc = "done") =>
                      /\ c.fnOut = Rejected(applied.err)
                      /\ c.out = Rejected(Err("Error", CannotSerializeMsg(name)))
                      /\ c.out.err # applied.err
                      /\ c.matches = <<>>
                      /\ ~files[Path(c)].exists

\* the function rejects with a TypeError: the first run recorded nothing and
\* its first invocation rejected with the codec's error; in the run after it
\* the first invocation called the function again and rejected likewise
C30_Witness ==
    /\ applied.fn = "recordAndReplayFnMock" /\ applied.err.ctor = "TypeError"
    /\ prev.exists /\ prev.recorded
    /\ Len(prev.calls) >= 1
    /\ prev.calls[1].out = Rejected(Err("Error", CannotSerializeMsg("TypeError")))
    /\ Len(calls) >= 1
    /\ calls[1].mode \in {"CREATE", "CREATE_AND_UPDATE"}
    /\ calls[1].fnCalls = 1 /\ calls[1].pc = "done"
    /\ calls[1].out = Rejected(Err("Error", CannotSerializeMsg("TypeError")))
    /\ ~files[1].exists

\* an invocation whose last assertion the runner let pass
Accepted(c) == c.matches # <<>> /\ \A i \in 1..Len(c.matches) : c.matches[i].pass

\* the invocation was refused by the guard of callFunctionAndSaveSnapshot
Refused(c) ==
    /\ c.branch \in {"callFunctionAndCreateSnapshot", "callFunctionAndUpdateSnapshot"}
    /\ c.fnCalls = 0

\* C31, the state: an invocation has resolved only if it replayed a success
\* record whose args match, or if the real function resolved and the runner
\* accepted the record proposed; a settled invocation that found a
\* mismatch it may not update, no record in NONE, a refusal of the guard, a
\* rejection of the real function or an assertion that failed has rejected;
\* and an invocation is pending only while it awaits the real function or
\* the runner, which it does at most once and at most twice.
C31_State ==
    \A k \in 1..Len(calls) :
        LET c == calls[k]
        IN  /\ c.out.st = "resolved" =>
                  \/ /\ FoundMatch(c) /\ c.fnCalls = 0 /\ c.matches = <<>>
                     /\ Get(Get(c.call, "result"), "success") = JBool(TRUE)
                  \/ /\ c.fnCalls = 1 /\ c.fnOut.st = "resolved"
                     /\ Accepted(c) /\ Len(c.matches) = 1
                     /\ c.out.num = c.fnOut.num
            /\ (/\ c.pc = "done"
                /\ \/ FoundMismatch(c) /\ c.mode \in {"NONE", "CREATE"}
                   \/ c.mode = "NONE" /\ ~snapshotExists(c.call)
                   \/ Refused(c)
                   \/ c.fnOut.st = "rejected"
                   \/ \E i \in 1..Len(c.matches) : ~c.matches[i].pass)
                  => c.out.st = "rejected"
            /\ c.pc \in {"awaitFn", "awaitMatch", "done"}
            /\ c.pc = "done" <=> c.out.st # "pending"
            /\ c.fnCalls <= 1 /\ Len(c.matches) <= 2

\* C31: nothing is swallowed, and every invocation settles once what it
\* awaits has settled.
C31_NothingSwallowed ==
    /\ []C31_State
    /\ \A k \in 1..MaxCalls :
          (Len(calls) >= k /\ calls[k].pc # "done") ~> (Len(calls) >= k /\ calls[k].pc = "done")

\* the real function resolved, the runner refused the record (its mode had
\* been set to "none" meanwhile) and the invocation has rejected
C31_Witness ==
    \E k \in 1..Len(calls) :
        /\ calls[k].fnCalls = 1 /\ calls[k].fnOut.st = "resolved"
        /\ calls[k].pc = "done" /\ calls[k].out.st = "rejected"
        /\ Len(calls[k].matches) = 1 /\ ~calls[k].matches[1].pass

\* the number a string of digits is the decimal notation of
RECURSIVE DecimalValue(_)
DecimalValue(digits) ==
    IF digits = <<>> THEN 0
    ELSE 10 * DecimalValue(SubSeq(digits, 1, Len(digits) - 1))
            + (CHOOSE d \in 0..9 : DigitChars[d + 1] = digits[Len(digits)])

\* key is name, "-", the decimal notation of index + 1 with zeros before it
\* up to three digits and none beyond, ".json"
WellFormedKey(key, name, i) ==
    LET digits == SubSeq(key, Len(name) + 2, Len(key) - 5)
    IN  /\ Len(key) >= Len(name) + 9
        /\ SubSeq(key, 1, Len(name) + 1) = name \o <<"-">>
        /\ SubSeq(key, Len(key) - 4, Len(key)) = <<".", "j", "s", "o", "n">>
        /\ \A j \in 1..Len(digits) : \E d \in 0..9 : DigitChars[d + 1] = digits[j]
        /\ DecimalValue(digits) = i + 1
        /\ Len(digits) > 3 => digits[1] # "0"

\* C32: the file name of (name, index) is "{name}-{index + 1, zero-padded to
\* three digits}.json", index 0 giving 001, and two pairs (name, index) have
\* the same file name only if they are the same pair, also for indices of
\* 1000 and more.
C32_KeysInjective ==
    (applied.fn = "getSnapshotFile" /\ ret.done) =>
        /\ WellFormedKey(ret.a, applied.a.name, applied.a.index)
        /\ WellFormedKey(ret.b, applied.b.name, applied.b.index)
        /\ applied.a.index = 0 =>
              ret.a = applied.a.name \o <<"-", "0", "0", "1", ".", "j", "s", "o", "n">>
        /\ ret.a = ret.b => applied.a = applied.b

\* div-1001.json of the call of index 1000 beside div-001.json of the first
\* call
C32_Witness ==
    /\ applied.fn = "getSnapshotFile" /\ ret.done
    /\ applied.a = [name |-> <<"d", "i", "v">>, index |-> 1000]
    /\ applied.b = [name |-> <<"d", "i", "v">>, index |-> 0]
    /\ ret.a = <<"d", "i", "v", "-", "1", "0", "0", "1", ".", "j", "s", "o", "n">>
    /\ ret.b = <<"d", "i", "v", "-", "0", "0", "1", ".", "j", "s", "o", "n">>

\* the rows of the decision table an invocation falls under, by what it
\* found at its index and the mode it works in
TableRows(c) ==
    LET exists == c.call.kind # "null"
        match == exists /\ jsonEquals(serializeArgs(c.args), Get(c.call, "args"))
    IN  (IF ~exists /\ c.mode \in {"CREATE", "CREATE_AND_UPDATE"}
         THEN {"callFunctionAndCreateSnapshot"} ELSE {})
        \cup (IF ~exists /\ c.mode = "NONE" THEN {"failNoSnapshot"} ELSE {})
        \cup (IF exists /\ match THEN {"deserializeResultFromSnapshot"} ELSE {})
        \cup (IF exists /\ ~match /\ c.mode = "CREATE_AND_UPDATE"
              THEN {"callFunctionAndUpdateSnapshot"} ELSE {})
        \cup (IF exists /\ ~match /\ c.mode \in {"NONE", "CREATE"}
              THEN {"failArgsMismatch"} ELSE {})

SavedAndSettled(c) ==
    /\ c.branch \in {"callFunctionAndCreateSnapshot", "callFunctionAndUpdateSnapshot"}
    /\ c.fnCalls = 1
    /\ c.pc = "done"

\* the text proposed is a record with result.success = false
ProposesFailure(m) ==
    Get(Get(m.received.doc, "result"), "success") = JBool(FALSE)

\* C34 (as claimed): an invocation that creates or updates proposes exactly
\* one record to the runner, and proposes a record with result.success =
\* false only if the real function itself rejected: not when the real
\* function resolved and serializing or persisting the success record
\* failed.
C34_OneProposal ==
    \A k \in 1..Len(calls) :
        LET c == calls[k]
        IN  SavedAndSettled(c) =>
                /\ Len(c.matches) = 1
                /\ \A i \in 1..Len(c.matches) :
                      ProposesFailure(c.matches[i]) => c.fnOut.st = "rejected"

\* the files of a listing that are records of the fixture called name
OwnRecords(name, listing) ==
    SelectSeq(listing, LAMBDA entry : \E i \in 0..MaxFiles : entry = filename(name, i))

\* C35 (as claimed): isFulfilled() of a fixture looks at the records of that
\* fixture only: its result is what it would be if the folder held nothing
\* else, and it names no file of a fixture whose name begins with this
\* fixture's name and "-".
C35_OnlyOwnRecords ==
    (applied.fn = "isMockFulfilled" /\ ret.done) =>
        LET own == OwnRecords(applied.name, applied.listing)
        IN  /\ ret.out.success <=> index >= Len(own)
            /\ ret.out.total = Len(own)
            /\ \A i \in 1..Len(ret.out.missing) :
                  \E j \in 1..Len(own) : ret.out.missing[i] = own[j]

\* the invocation completed without failure: it replayed the record at its
\* index, or created or overwrote it
Consumed(c) ==
    /\ c.pc = "done"
    /\ \/ c.branch = "deserializeResultFromSnapshot"
       \/ /\ c.branch \in {"callFunctionAndCreateSnapshot", "callFunctionAndUpdateSnapshot"}
          /\ c.fnCalls = 1
          /\ Accepted(c)

\* the stored indices are 1..n for some n
Contiguous ==
    \A path \in 2..MaxCalls : files[path].exists => files[path - 1].exists

\* C36 (as claimed): when every invocation has settled and isFulfilled()
\* returns success, every stored record of the fixture was reached by an
\* invocation of the instance that completed without failure; an invocation
\* that failed does not make a record count as consumed.  (Stated for
\* folders whose stored indices have no gap.)
C36_SuccessMeansConsumed ==
    (Settled /\ Contiguous /\ isFulfilled.success) =>
        \A path \in 1..MaxCalls :
            files[path].exists =>
                \E k \in 1..Len(calls) : Path(calls[k]) = path /\ Consumed(calls[k])

\* the records of the folder that the run has overwritten
OverwrittenRecords ==
    { fp \in DOMAIN files : files0[fp].exists /\ files[fp] # files0[fp] }

\* the invocation found no record at its index, or a record of other arguments
NoRecordOrMismatch(c) ==
    \/ ~c.contents.exists
    \/ ~jsonEquals(options_serializeArgs(c.name, c.args), Get(c.contents.doc, "args"))

C37_State ==
    /\ Cardinality(OverwrittenRecords) <= 1
    /\ OverwrittenRecords # {} => updateSnapshot = "none"
    /\ \A k \in 1..Len(calls) :
           LET c == calls[k]
           IN  (c.mode = "NONE" /\ NoRecordOrMismatch(c)) =>
                   /\ c.fnCalls = 0
                   /\ c.pc # "awaitFn"
                   /\ files[<<c.name, c.index + 1>>] = c.contents
                   /\ c.pc = "done" => c.out.st = "rejected"

C37_Step ==
    (OverwrittenRecords # {} /\ Len(calls') > Len(calls)) =>
        calls'[Len(calls')].mode = "NONE"

\* C37: in the earlier variant recordAndReplayFnCalls, a run overwrites at
\* most one stored record: once a record has been overwritten the ambient
\* update mode is "none", every invocation started from then on, of either
\* fixture, reads NONE, and an invocation that reads NONE and finds no
\* record or a record of other arguments never invokes the real function,
\* leaves its file as it found it and rejects.
C37_OnlyFirstUpdated == []C37_State /\ [][C37_Step]_vars

\* a record of one fixture was overwritten in "all" mode, and an invocation
\* of the other fixture made after that, whose record has other arguments,
\* has been rejected without a call of the real function
C37_Witness ==
    \E j, k \in 1..Len(calls) :
        /\ calls[j].branch = "update"
        /\ calls[j].pc = "done"
        /\ calls[j].out.st = "resolved"
        /\ <<calls[j].name, calls[j].index + 1>> \in OverwrittenRecords
        /\ calls[k].name # calls[j].name
        /\ calls[k].mode = "NONE"
        /\ calls[k].contents.exists
        /\ NoRecordOrMismatch(calls[k])
        /\ calls[k].pc = "done"
        /\ calls[k].out.st = "rejected"
        /\ calls[k].fnCalls = 0

====
